---- MODULE Spec2Model ----
(***************************************************************************)
(* gti-cli: the typing session state machine (session package), driven by  *)
(* the terminal event loop of the tui package or, in challenge mode, by    *)
(* the GameModel of the challenge package.                                 *)
(*                                                                         *)
(* Time is counted in timer periods: one unit is the 100 ms period of      *)
(* Session.tickTimer.  `elapsed` is time.Since(s.startTime) in that unit.  *)
(* float64 metrics are kept as exact fractions [n, d] (d > 0), compared by *)
(* cross multiplication.                                                   *)
(***************************************************************************)
EXTENDS Integers, Sequences, FiniteSets, TLC

VARIABLES
    sess,          \* the Session object (SessionState, TextData, Timing, Statistics)
    m,             \* the tui.Model: screen mode and quitting flag
    elapsed,       \* time.Since(sess.startTime), in timer periods
    ticks,         \* TimerTickMsg commands scheduled and not yet delivered
    completeMsgs,  \* SessionCompleteMsg commands issued and not yet delivered
    records,       \* the persistence store: how many records SaveSessionRecord was
                   \* handed, and the last of them
    keys,          \* number of keys HandleInput has processed
    run,           \* history of the current run (since the last Start), for the properties
    game,          \* the challenge GameState, its TickMsg commands and the progress store
    history,       \* the records the statistics command loaded, in list order
    stats,         \* the Statistics the statistics view computed from them
    exported,      \* the Statistics the statistics command exports as JSON
    net            \* the quote fetch: the replies of the server and the quotes built

vars == <<sess, m, elapsed, ticks, completeMsgs, records, keys, run, game,
          history, stats, exported, net>>

----------------------------------------------------------------------------
(* Bounds of the model *)

\* the time limit of a timed session, in timer periods
LimitTicks == 1
\* seconds of a challenge game that are told apart
MaxSecs == 2
\* number of keys HandleInput processes in one behaviour
MaxKeys == 3
\* number of records the store accepts in one behaviour
MaxRecords == 2
\* pending TimerTickMsg beyond this number are not distinguished
MaxTicks == 1
\* number of keys HandleInput processes in a practice session that shows its
\* chunks in pages
MaxPageKeys == 8

(* Program constants *)

\* period of Session.tickTimer in milliseconds
TickMs == 100
\* characters per word of the WPM formulas
CharsPerWord == 5
\* timer periods in the second of GameModel.tickTimer
SecondTicks == 10

\* the single-character keys the tests type; texts are written in them
Alphabet == {"a", "y"}

\* the texts the generators and the files deliver
TextA == <<"a", "y">>
TextB == <<"y", "a">>
TextC == <<"a">>
GenTexts == {TextA, TextC}

----------------------------------------------------------------------------
(* float64 as exact fractions *)

Rat(n, d) == [n |-> n, d |-> d]
RatEq(a, b) == a.n * b.d = b.n * a.d
RatLe(a, b) == a.n * b.d <= b.n * a.d

Min(a, b) == IF a < b THEN a ELSE b

----------------------------------------------------------------------------
(* results.go: the metric functions *)

\* minutes := duration.Minutes() is duration * TickMs / 60000
CalculateWPM(totalChars, duration) ==
    IF duration <= 0 THEN Rat(0, 1)
    ELSE Rat(totalChars * 60000, CharsPerWord * duration * TickMs)

CalculateNetWPM(totalChars, uncorrectedErrors, duration) ==
    IF duration <= 0 THEN Rat(0, 1)
    ELSE LET raw == totalChars - (uncorrectedErrors * 5)
             penalizedChars == IF raw < 0 THEN 0 ELSE raw
         IN  Rat(penalizedChars * 60000, CharsPerWord * duration * TickMs)

\* avgWordLength is a float64, kept as a fraction
CalculateAdjustedWPM(correctChars, avgWordLength, duration) ==
    IF duration <= 0 \/ avgWordLength.n <= 0 THEN Rat(0, 1)
    ELSE Rat(correctChars * avgWordLength.d * 60000,
             avgWordLength.n * duration * TickMs)

\* a metric function without its guard, for C21
CalculateAccuracy_Unguarded(totalChars, mistakes) ==
    Rat((totalChars - mistakes) * 100, totalChars)

CalculateAccuracy(totalChars, mistakes) ==
    IF totalChars = 0 THEN Rat(100, 1)
    ELSE Rat((totalChars - mistakes) * 100, totalChars)

SessionCalculateWPM(s) ==
    IF s.duration = 0 THEN Rat(0, 1)
    ELSE Rat((s.totalChars + Len(s.userInput)) * 60000,
             CharsPerWord * s.duration * TickMs)

SessionCalculateCPM(s) ==
    IF s.duration = 0 THEN Rat(0, 1)
    ELSE Rat((s.totalChars + Len(s.userInput)) * 60000, s.duration * TickMs)

SessionCalculateAccuracy(s) ==
    LET totalChars == s.totalChars + Len(s.userInput)
        totalMistakes == s.totalMistakes + s.mistakes
    IN  IF totalChars = 0 THEN Rat(100, 1)
        ELSE Rat((totalChars - totalMistakes) * 100, totalChars)

\* ResultsCalculator.CalculateResults, shown on the results screen
CalculateResults(s, mode) ==
    LET mistakes == IF mode = "challenge"
                        THEN s.totalMistakes + (IF s.mistakes > 0 THEN s.mistakes ELSE 0)
                    ELSE IF mode = "practice" THEN s.totalMistakes
                    ELSE s.totalMistakes + s.mistakes
        totalChars == s.totalChars + Len(s.userInput)
    IN  [ WPM      |-> CalculateWPM(totalChars, s.duration),
          CPM      |-> IF s.duration > 0
                       THEN Rat(totalChars * 60000, s.duration * TickMs)
                       ELSE Rat(0, 1),
          Accuracy |-> CalculateAccuracy(totalChars, mistakes),
          Mistakes |-> mistakes,
          Duration |-> s.duration,
          Chars    |-> totalChars ]

----------------------------------------------------------------------------
(* session.go (in results.go): construction *)

\* the zero value of Session
ZeroSession ==
    [ mode |-> "", text |-> <<>>, userInput |-> <<>>, allChunks |-> <<>>,
      position |-> 0, mistakes |-> 0, totalChars |-> 0, totalMistakes |-> 0,
      totalChunks |-> 0, maxChunks |-> 0, chunkIndex |-> 0,
      isGroupMode |-> FALSE, pageSize |-> 0, currentPageChunks |-> 0,
      duration |-> 0, timeLimit |-> 0, running |-> FALSE, completed |-> FALSE,
      backspaceCount |-> 0, correctedErrors |-> 0, uncorrectedErrors |-> 0,
      correctChars |-> 0, avgWordLength |-> Rat(0, 1) ]

\* the zero value of SessionConfig; File holds the paragraphs loadParagraphs reads
ZeroConfig ==
    [ Mode |-> "", Text |-> <<>>, AllChunks |-> <<>>, ChunkIndex |-> 0,
      MaxChunks |-> 0, TimeLimit |-> 0, QuoteList |-> <<>>, Language |-> "",
      HasFile |-> FALSE, File |-> <<>>, Start |-> 0 ]

\* strings.Join(chunks, "\n\n")
RECURSIVE JoinChunks(_)
JoinChunks(chunks) ==
    IF Len(chunks) = 0 THEN <<>>
    ELSE IF Len(chunks) = 1 THEN chunks[1]
    ELSE chunks[1] \o <<"\n", "\n">> \o JoinChunks(Tail(chunks))

\* the 0-based index GetParagraphAtStart reads (paragraphs is not empty)
ParagraphIndex(paragraphs, start) ==
    LET startIndex == start - 1
    IN  IF startIndex < 0 THEN 0
        ELSE IF startIndex >= Len(paragraphs) THEN Len(paragraphs) - 1
        ELSE startIndex

\* DefaultPracticeText stands for config.DefaultPracticeText
DefaultPracticeText == TextA

GetParagraphAtStart(paragraphs, start) ==
    IF Len(paragraphs) = 0 THEN DefaultPracticeText
    ELSE paragraphs[ParagraphIndex(paragraphs, start) + 1]

\* setTextFromConfig; gen is the sequence of texts the word generator returns
\* to the calls made (the first one for a single text, one per chunk of a page)
setTextFromConfig(s, c, gen) ==
    IF c.Text # <<>> THEN
        [s EXCEPT !.text = c.Text]
    ELSE IF c.HasFile THEN
        [s EXCEPT !.text = GetParagraphAtStart(c.File, c.Start),
                  !.allChunks = c.File,
                  !.chunkIndex = c.Start - 1]
    ELSE IF Len(c.QuoteList) > 0 THEN
        IF Len(c.QuoteList) = 1 THEN [s EXCEPT !.text = c.QuoteList[1]]
        ELSE [s EXCEPT !.text = c.QuoteList[1],
                       !.allChunks = c.QuoteList,
                       !.chunkIndex = 0]
    ELSE IF c.Language # "" THEN
        [s EXCEPT !.text = gen[1]]
    ELSE IF c.MaxChunks > 0 THEN
        LET isGroupMode == c.MaxChunks > 2
            single == c.MaxChunks <= 1 \/ ~isGroupMode
            currentPageChunks == IF single THEN 1 ELSE Min(3, c.MaxChunks)
        IN  [s EXCEPT !.text = IF single THEN gen[1]
                               ELSE JoinChunks(SubSeq(gen, 1, currentPageChunks)),
                      !.maxChunks = c.MaxChunks,
                      !.isGroupMode = isGroupMode,
                      !.pageSize = IF single THEN 1 ELSE 3,
                      !.currentPageChunks = currentPageChunks]
    ELSE IF c.Mode \in {"words", "timed"} THEN
        [s EXCEPT !.text = gen[1], !.timeLimit = LimitTicks]
    ELSE IF c.Mode = "practice" THEN
        [s EXCEPT !.text = gen[1]]
    ELSE
        [s EXCEPT !.text = DefaultPracticeText]

\* len(strings.Fields(text)): the maximal runs of characters that are not space
Fields(text) ==
    LET space == {" ", "\n", "\t"}
    IN  Cardinality({i \in 1..Len(text) :
                       text[i] \notin space /\ (i = 1 \/ text[i - 1] \in space)})

\* calculateAvgWordLength: the characters of the words of the text over their
\* number, 5.0 for a text without words
calculateAvgWordLength(s) ==
    LET space == {" ", "\n", "\t"}
        totalChars == Cardinality({i \in 1..Len(s.text) : s.text[i] \notin space})
    IN  [s EXCEPT !.avgWordLength = IF Fields(s.text) = 0 THEN Rat(5, 1)
                                    ELSE Rat(totalChars, Fields(s.text))]

NewSessionWithOptions(c, gen) ==
    LET s0 == [ZeroSession EXCEPT !.mode = c.Mode]
        s1 == setTextFromConfig(s0, c, gen)
        s2 == IF c.TimeLimit > 0 THEN [s1 EXCEPT !.timeLimit = c.TimeLimit] ELSE s1
        s3 == IF c.ChunkIndex # 0 THEN [s2 EXCEPT !.chunkIndex = c.ChunkIndex] ELSE s2
        s4 == IF Len(c.AllChunks) > 0 THEN [s3 EXCEPT !.allChunks = c.AllChunks] ELSE s3
    IN  calculateAvgWordLength(s4)

\* NewSession: the defaults it sets from the mode before NewSessionWithOptions
NewSession(c, gen) ==
    NewSessionWithOptions(
        IF c.Mode \in {"words", "timed"} /\ c.TimeLimit = 0
        THEN [c EXCEPT !.TimeLimit = LimitTicks] ELSE c,
        gen)

----------------------------------------------------------------------------
(* session.go (in results.go): the record and the operations *)

\* saveRecord: the SessionRecord handed to SaveSessionRecord
saveRecord(s, mistakes) ==
    [ Mode              |-> s.mode,
      TextLength        |-> Len(s.text),
      DurationMs        |-> s.duration * TickMs,
      WPM               |-> SessionCalculateWPM(s),
      CPM               |-> SessionCalculateCPM(s),
      Accuracy          |-> SessionCalculateAccuracy(s),
      Mistakes          |-> mistakes,
      NetWPM            |-> CalculateNetWPM(s.totalChars + Len(s.userInput),
                                            s.uncorrectedErrors, s.duration),
      AdjustedWPM       |-> CalculateAdjustedWPM(s.correctChars, s.avgWordLength,
                                                 s.duration),
      CorrectedErrors   |-> s.correctedErrors,
      UncorrectedErrors |-> s.uncorrectedErrors,
      BackspaceCount    |-> s.backspaceCount ]

\* the store before the first record
NoRecord ==
    [ Mode |-> "", TextLength |-> 0, DurationMs |-> 0, WPM |-> Rat(0, 1),
      CPM |-> Rat(0, 1), Accuracy |-> Rat(100, 1), Mistakes |-> 0,
      NetWPM |-> Rat(0, 1), AdjustedWPM |-> Rat(0, 1), CorrectedErrors |-> 0,
      UncorrectedErrors |-> 0, BackspaceCount |-> 0 ]

\* SaveSessionRecord for each record of saved, in order
SaveSessionRecords(store, saved) ==
    IF Len(saved) = 0 THEN store
    ELSE [count |-> store.count + Len(saved), last |-> saved[Len(saved)]]

\* What an operation of the session returns besides the session itself:
\* complete: the SessionCompleteMsg command; saved: the records it stored;
\* tick: the tickTimer command; panic: a Go run-time panic ended the program.
Outcome(s, complete, saved, tick, panic) ==
    [sess |-> s, complete |-> complete, saved |-> saved, tick |-> tick, panic |-> panic]

Start(s) == [s EXCEPT !.running = TRUE]

Restart(s) ==
    Start([s EXCEPT !.userInput = <<>>, !.position = 0, !.mistakes = 0,
                    !.totalMistakes = 0, !.totalChars = 0, !.totalChunks = 0,
                    !.chunkIndex = 0, !.duration = 0, !.completed = FALSE])

\* a faulty completion that stores a record in challenge mode as well, for C18
completeSession_SavesAlways(s, now) ==
    LET s1 == [s EXCEPT !.completed = TRUE, !.running = FALSE, !.duration = now]
    IN  Outcome([s1 EXCEPT !.mistakes = 0], TRUE,
                <<saveRecord(s1, s1.totalMistakes)>>, FALSE, FALSE)

\* completeSession; now is time.Since(s.startTime)
completeSession(s, now) ==
    LET s1 == [s EXCEPT !.completed = TRUE, !.running = FALSE, !.duration = now]
    IN  Outcome([s1 EXCEPT !.mistakes = 0], TRUE,
                IF s.mode # "challenge" THEN <<saveRecord(s1, s1.totalMistakes)>> ELSE <<>>,
                FALSE, FALSE)

\* a faulty regeneration that leaves the cursor where it was, for C4
handleContinuousCompletion_KeepsCursor(s, gen) ==
    [s EXCEPT !.totalChars = @ + Len(s.userInput),
              !.totalMistakes = @ + s.mistakes,
              !.text = gen[1], !.userInput = <<>>, !.mistakes = 0]

handleContinuousCompletion(s, gen) ==
    [s EXCEPT !.totalChars = @ + Len(s.userInput),
              !.totalMistakes = @ + s.mistakes,
              !.text = gen[1], !.position = 0, !.userInput = <<>>, !.mistakes = 0]

\* a faulty paging that fills every page, for C11
handlePracticeCompletion_FullPages(s, now, gen) ==
    LET s1 == [s EXCEPT !.totalChars = @ + Len(s.userInput),
                        !.totalMistakes = @ + s.mistakes,
                        !.totalChunks = @ + s.currentPageChunks]
    IN  IF s1.totalChunks >= s1.maxChunks THEN completeSession(s1, now)
        ELSE Outcome([s1 EXCEPT !.currentPageChunks = s1.pageSize,
                                !.text = JoinChunks(SubSeq(gen, 1, s1.pageSize)),
                                !.position = 0, !.userInput = <<>>,
                                !.mistakes = 0],
                     FALSE, <<>>, FALSE, FALSE)

handlePracticeCompletion(s, now, gen) ==
    IF s.isGroupMode THEN
        LET s1 == [s EXCEPT !.totalChars = @ + Len(s.userInput),
                            !.totalMistakes = @ + s.mistakes,
                            !.totalChunks = @ + s.currentPageChunks]
        IN  IF s1.totalChunks >= s1.maxChunks THEN completeSession(s1, now)
            ELSE LET n == Min(s1.pageSize, s1.maxChunks - s1.totalChunks)
                 IN  Outcome([s1 EXCEPT !.currentPageChunks = n,
                                        !.text = JoinChunks(SubSeq(gen, 1, n)),
                                        !.position = 0, !.userInput = <<>>,
                                        !.mistakes = 0],
                             FALSE, <<>>, FALSE, FALSE)
    ELSE
        LET s1 == [s EXCEPT !.totalChunks = @ + 1,
                            !.totalChars = @ + Len(s.userInput),
                            !.totalMistakes = @ + s.mistakes]
        IN  IF s1.totalChunks >= s1.maxChunks THEN completeSession(s1, now)
            ELSE Outcome([s1 EXCEPT !.text = gen[1], !.position = 0,
                                    !.userInput = <<>>, !.mistakes = 0],
                         FALSE, <<>>, FALSE, FALSE)

\* handleChunkCompletion; s.allChunks[s.chunkIndex] with a negative index panics
handleChunkCompletion(s, now) ==
    LET s1 == [s EXCEPT !.chunkIndex = @ + 1,
                        !.totalChars = @ + Len(s.userInput),
                        !.totalMistakes = @ + s.mistakes]
    IN  IF s1.chunkIndex >= Len(s1.allChunks) THEN completeSession(s1, now)
        ELSE IF s1.chunkIndex < 0 THEN Outcome(s1, FALSE, <<>>, FALSE, TRUE)
        ELSE Outcome([s1 EXCEPT !.text = s1.allChunks[s1.chunkIndex + 1],
                                !.position = 0, !.userInput = <<>>, !.mistakes = 0],
                     FALSE, <<>>, FALSE, FALSE)

handleDefaultCompletion(s, now) ==
    completeSession([s EXCEPT !.totalChars = @ + Len(s.userInput),
                              !.totalMistakes = @ + s.mistakes], now)

\* HandleInput, lines 771-784: case tea.KeyBackspace
\* a faulty backspace that leaves uncorrectedErrors alone, for C6
inputBackspace_KeepsUncorrected(s) ==
    IF Len(s.userInput) > 0 THEN
        LET removedChar == s.userInput[Len(s.userInput)]
            s1 == [s EXCEPT !.backspaceCount = @ + 1,
                            !.userInput = SubSeq(@, 1, Len(@) - 1)]
        IN  IF s1.position > 0 THEN
                LET s2 == [s1 EXCEPT !.position = @ - 1]
                IN  IF removedChar # s2.text[s2.position + 1]
                    THEN [s2 EXCEPT !.correctedErrors = @ + 1]
                    ELSE s2
            ELSE s1
    ELSE s

\* a faulty backspace that uncounts an error for a correct character too, for C20
inputBackspace_AlwaysUncounts(s) ==
    IF Len(s.userInput) > 0 THEN
        LET removedChar == s.userInput[Len(s.userInput)]
            s1 == [s EXCEPT !.backspaceCount = @ + 1,
                            !.userInput = SubSeq(@, 1, Len(@) - 1)]
        IN  IF s1.position > 0 THEN
                LET s2 == [s1 EXCEPT !.position = @ - 1, !.uncorrectedErrors = @ - 1]
                IN  IF removedChar # s2.text[s2.position + 1]
                    THEN [s2 EXCEPT !.correctedErrors = @ + 1]
                    ELSE s2
            ELSE s1
    ELSE s

inputBackspace(s) ==
    IF Len(s.userInput) > 0 THEN
        LET removedChar == s.userInput[Len(s.userInput)]
            s1 == [s EXCEPT !.backspaceCount = @ + 1,
                            !.userInput = SubSeq(@, 1, Len(@) - 1)]
        IN  IF s1.position > 0 THEN
                LET s2 == [s1 EXCEPT !.position = @ - 1]
                IN  IF removedChar # s2.text[s2.position + 1]
                    THEN [s2 EXCEPT !.correctedErrors = @ + 1,
                                    !.uncorrectedErrors = @ - 1]
                    ELSE s2
            ELSE s1
    ELSE s

\* a faulty character key that counts a mismatch in mistakes alone, for C5
inputChar_ForgetsUncorrected(s, char) ==
    LET s1 == [s EXCEPT !.userInput = Append(@, char)]
        s2 == IF s1.position < Len(s1.text) THEN
                  IF char = s1.text[s1.position + 1]
                  THEN [s1 EXCEPT !.correctChars = @ + 1]
                  ELSE [s1 EXCEPT !.mistakes = @ + 1]
              ELSE s1
    IN  [s2 EXCEPT !.position = @ + 1]

\* HandleInput, lines 785-806: a key whose String() is one character
inputChar(s, char) ==
    LET s1 == [s EXCEPT !.userInput = Append(@, char)]
        s2 == IF s1.position < Len(s1.text) THEN
                  IF char = s1.text[s1.position + 1]
                  THEN [s1 EXCEPT !.correctChars = @ + 1]
                  ELSE [s1 EXCEPT !.mistakes = @ + 1, !.uncorrectedErrors = @ + 1]
              ELSE s1
    IN  [s2 EXCEPT !.position = @ + 1]

\* HandleInput: the guard of line 767
acceptsInput(s) == s.running /\ ~s.completed

\* a faulty dispatch that ends a timed session at the end of its text, for C7
continuousMode_PracticeOnly(s) == s.mode = "practice" /\ s.maxChunks = 0

\* HandleInput, line 819: the modes whose text is regenerated without end
continuousMode(s) ==
    s.mode = "timed" \/ s.mode = "words" \/ (s.mode = "practice" /\ s.maxChunks = 0)

\* HandleInput; key is key.String(), "backspace" for tea.KeyBackspace
HandleInput(s, key, now, gen) ==
    IF ~acceptsInput(s) THEN Outcome(s, FALSE, <<>>, FALSE, FALSE)
    ELSE
        LET s1 == IF key = "backspace" THEN inputBackspace(s)
                  ELSE IF key \in Alphabet THEN inputChar(s, key)
                  ELSE s
            s2 == IF s1.running THEN [s1 EXCEPT !.duration = now] ELSE s1
        IN  IF s2.position >= Len(s2.text) THEN
                IF s2.mode = "practice" /\ s2.maxChunks > 0
                    THEN handlePracticeCompletion(s2, now, gen)
                ELSE IF s2.mode = "custom" \/ s2.mode = "quotes"
                    THEN handleChunkCompletion(s2, now)
                ELSE IF continuousMode(s2)
                    THEN Outcome(handleContinuousCompletion(s2, gen),
                                 FALSE, <<>>, FALSE, FALSE)
                ELSE handleDefaultCompletion(s2, now)
            ELSE Outcome(s2, FALSE, <<>>, FALSE, FALSE)

\* UpdateTimer: the expiry test of line 921
timerExpired(s) == s.timeLimit > 0 /\ s.duration >= s.timeLimit

\* UpdateTimer: the mistakes it passes to saveRecord, lines 926-932
timerMistakes(s) ==
    IF s.mode = "timed" \/ s.mode = "words" \/ s.mode = "practice"
        THEN s.totalMistakes + s.mistakes
    ELSE IF s.mode = "challenge" THEN s.totalMistakes
    ELSE s.mistakes

\* a faulty UpdateTimer that runs on a stopped session as well, for C3
UpdateTimer_IgnoresRunning(s, now) ==
    LET s1 == [s EXCEPT !.duration = now]
    IN  IF timerExpired(s1) THEN
            LET s2 == [s1 EXCEPT !.completed = TRUE, !.running = FALSE,
                                 !.duration = s1.timeLimit]
            IN  Outcome([s2 EXCEPT !.mistakes = 0], TRUE,
                        <<saveRecord(s2, timerMistakes(s2))>>, FALSE, FALSE)
        ELSE Outcome(s1, FALSE, <<>>, TRUE, FALSE)

\* a faulty UpdateTimer that keeps the duration it read, for C8
UpdateTimer_NoClamp(s, now) ==
    IF s.running THEN
        LET s1 == [s EXCEPT !.duration = now]
        IN  IF timerExpired(s1) THEN
                LET s2 == [s1 EXCEPT !.completed = TRUE, !.running = FALSE]
                IN  Outcome([s2 EXCEPT !.mistakes = 0], TRUE,
                            <<saveRecord(s2, timerMistakes(s2))>>, FALSE, FALSE)
            ELSE Outcome(s1, FALSE, <<>>, TRUE, FALSE)
    ELSE Outcome(s, FALSE, <<>>, FALSE, FALSE)

\* a faulty UpdateTimer that schedules no further tick, for C10
UpdateTimer_NoReschedule(s, now) ==
    IF s.running THEN
        LET s1 == [s EXCEPT !.duration = now]
        IN  IF timerExpired(s1) THEN
                LET s2 == [s1 EXCEPT !.completed = TRUE, !.running = FALSE,
                                     !.duration = s1.timeLimit]
                IN  Outcome([s2 EXCEPT !.mistakes = 0], TRUE,
                            <<saveRecord(s2, timerMistakes(s2))>>, FALSE, FALSE)
            ELSE Outcome(s1, FALSE, <<>>, FALSE, FALSE)
    ELSE Outcome(s, FALSE, <<>>, FALSE, FALSE)

UpdateTimer(s, now) ==
    IF s.running THEN
        LET s1 == [s EXCEPT !.duration = now]
        IN  IF timerExpired(s1) THEN
                LET s2 == [s1 EXCEPT !.completed = TRUE, !.running = FALSE,
                                     !.duration = s1.timeLimit]
                IN  Outcome([s2 EXCEPT !.mistakes = 0], TRUE,
                            <<saveRecord(s2, timerMistakes(s2))>>, FALSE, FALSE)
            ELSE Outcome(s1, FALSE, <<>>, TRUE, FALSE)
    ELSE Outcome(s, FALSE, <<>>, FALSE, FALSE)

----------------------------------------------------------------------------
(* The sessions tui.NewModel and the app package construct *)

\* the paragraphs of the custom file, and the quotes of a quote list
FileParagraphs == <<TextA, TextC>>
QuoteTexts == <<TextB, TextC>>
\* the --start values tried
Starts == {1, 2}
\* the --start values a command line may carry: none is refused
AnyStarts == {-1, 0, 1, 2, 3}
\* the chunk counts tried for practice with a chunk limit
ChunkLimits == {1, 2}

Configs ==
    {[ZeroConfig EXCEPT !.Mode = "practice", !.MaxChunks = n] : n \in ChunkLimits}
    \cup {[ZeroConfig EXCEPT !.Mode = md] : md \in {"practice", "words"}}
    \cup {[ZeroConfig EXCEPT !.Mode = "timed", !.Text = t, !.TimeLimit = LimitTicks] :
            t \in GenTexts}
    \cup {[ZeroConfig EXCEPT !.Mode = "custom", !.HasFile = TRUE,
                             !.File = FileParagraphs, !.Start = k] : k \in Starts}
    \cup {[ZeroConfig EXCEPT !.Mode = "custom-timed",
                             !.Text = GetParagraphAtStart(FileParagraphs, k),
                             !.AllChunks = FileParagraphs, !.ChunkIndex = k - 1,
                             !.TimeLimit = LimitTicks] : k \in Starts}
    \cup {[ZeroConfig EXCEPT !.Mode = "quotes", !.QuoteList = q] :
            q \in {QuoteTexts, SubSeq(QuoteTexts, 1, 1)}}
    \cup {[ZeroConfig EXCEPT !.Mode = "code", !.Language = "go", !.TimeLimit = l] :
            l \in {0, LimitTicks}}

\* what the word generator may return to the calls of one operation
Gens == {<<t>> : t \in GenTexts}
\* the same, to the calls that fill a page of up to three chunks
PageGens == {<<TextC, TextC, TextC>>}
\* the chunk counts tried for practice in pages, and one below them
PagedLimits == {2, 3, 4}

\* the same, for a key that ends the chunk of a session which generates the next
\* one; no other call of HandleInput reaches the generator
GensFor(s, key) ==
    IF /\ s.running /\ ~s.completed /\ key \in Alphabet
       /\ s.position + 1 >= Len(s.text)
       /\ s.mode \in {"practice", "timed", "words"}
    THEN (IF s.isGroupMode THEN PageGens ELSE Gens)
    ELSE {<<TextA>>}

----------------------------------------------------------------------------
(* challenge package: the GameModel that drives a session in challenge mode *)

\* Session.SetText and ResetForNewText
SetText(s, text) ==
    [s EXCEPT !.text = text, !.position = 0, !.userInput = <<>>,
              !.mistakes = 0, !.completed = FALSE]

\* the levels StartChallengeGame builds: a level with a BossRound is a boss
\* level; BossRounds is set by nothing; level 1 (index 0) opens the list
Level(time, boss, minAccuracy, maxMistakes, minChars, minWords) ==
    [ Time |-> time, BossRound |-> boss, BossRounds |-> <<>>,
      MinAccuracy |-> Rat(minAccuracy, 1), MaxMistakes |-> maxMistakes,
      MinChars |-> minChars, MinWords |-> minWords ]

Levels ==
    << Level(1, FALSE, 90, 1, 1, 1),
       Level(1, FALSE, 90, 1, 2, 1),
       Level(1, TRUE, 90, 1, 2, 1) >>

\* the values of highest_level_completed a game is started with
Progresses == {0, 1}

\* time.Since of the GameTiming instants, in seconds: the one in progress counts
Since(secs) == secs + 1
\* seconds beyond MaxSecs are not distinguished
Later(secs) == IF secs < MaxSecs THEN secs + 1 ELSE secs

NoGame ==
    [ on |-> FALSE, CurrentLevel |-> 0, Phase |-> "normal", ChunkIndex |-> 0,
      TimeLeft |-> 0, WordsTyped |-> 0, Mistakes |-> 0, TotalChars |-> 0,
      BossResults |-> <<>>, ticks |-> 0, secs |-> 0, levelSecs |-> 0,
      progress |-> 0 ]

\* resetLevelState: the GameState and the session it leaves
resetLevelState(g, s, gen) ==
    [ game |-> [g EXCEPT !.Phase = "normal", !.ChunkIndex = 0,
                         !.TimeLeft = Levels[g.CurrentLevel + 1].Time,
                         !.levelSecs = 0, !.WordsTyped = 0, !.Mistakes = 0,
                         !.TotalChars = 0],
      sess |-> Start(SetText(s, gen[1])) ]

GetStartingLevel(progress) == progress + 1

NewGameModel(progress, gen) ==
    resetLevelState(
        [NoGame EXCEPT !.on = TRUE, !.progress = progress,
                       !.CurrentLevel = GetStartingLevel(progress)],
        NewSession([ZeroConfig EXCEPT !.Mode = "challenge"], gen),
        gen)

calculateAccuracy(g) == CalculateAccuracy(g.TotalChars, g.Mistakes)

calculateWPM(g) == CalculateWPM(g.TotalChars, Since(g.levelSecs) * SecondTicks)

createBossResult(g, name, completed) ==
    [ Name |-> name, WPM |-> calculateWPM(g), Accuracy |-> calculateAccuracy(g),
      Completed |-> completed ]

checkLevelRequirements(g, level) ==
    /\ RatLe(level.MinAccuracy, calculateAccuracy(g))
    /\ g.Mistakes <= level.MaxMistakes
    /\ g.TotalChars >= level.MinChars
    /\ g.WordsTyped >= level.MinWords

\* generateNextChunk, the session it leaves
generateNextChunk(s, gen) == Start(SetText(s, gen[1]))

\* handleSessionComplete: the GameState and the session it leaves; a boss is
\* named by the number of its level
handleSessionComplete(g, s, gen) ==
    LET level == Levels[g.CurrentLevel + 1]
        g1 == [g EXCEPT !.WordsTyped = @ + Fields(s.text),
                        !.Mistakes = @ + s.mistakes,
                        !.TotalChars = @ + Len(s.userInput)]
        bossName == IF level.BossRound THEN g.CurrentLevel + 1 ELSE 0
    IN  IF g1.Phase = "boss" THEN
            [ game |-> [g1 EXCEPT !.BossResults =
                                      Append(@, createBossResult(g1, bossName, TRUE)),
                                  !.Phase = "normal", !.ChunkIndex = @ + 1],
              sess |-> generateNextChunk(s, gen) ]
        ELSE IF level.BossRound THEN
            IF checkLevelRequirements(g1, level) THEN
                [ game |-> [g1 EXCEPT !.BossResults =
                                          Append(@, createBossResult(g1, bossName, TRUE)),
                                      !.Phase = "complete"],
                  sess |-> s ]
            ELSE [game |-> [g1 EXCEPT !.Phase = "failed"], sess |-> s]
        ELSE
            [ game |-> [g1 EXCEPT !.ChunkIndex = @ + 1],
              sess |-> generateNextChunk(s, gen) ]

\* handleTick: the GameState it leaves; the tick is scheduled again while
\* TimeLeft > 0
handleTick(g) ==
    LET level == Levels[g.CurrentLevel + 1]
        g1 == [g EXCEPT !.TimeLeft = @ - 1, !.secs = Later(@), !.levelSecs = Later(@)]
    IN  IF g1.TimeLeft <= 0 THEN
            IF level.BossRound THEN
                [g1 EXCEPT !.BossResults =
                               Append(@, createBossResult(g1, g.CurrentLevel + 1, FALSE)),
                           !.Phase = "complete", !.ticks = @ - 1]
            ELSE IF checkLevelRequirements(g1, level)
                THEN [g1 EXCEPT !.Phase = "complete", !.ticks = @ - 1]
            ELSE [g1 EXCEPT !.Phase = "failed", !.ticks = @ - 1]
        ELSE g1

\* a faulty update that starts from an empty progress file, for C19
UpdateProgress_Forgets(stored, levelCompleted) ==
    IF levelCompleted > stored + 1 THEN levelCompleted ELSE 0

\* UpdateProgress: the highest_level_completed it leaves in the progress file
UpdateProgress(stored, levelCompleted) ==
    IF levelCompleted > stored THEN levelCompleted ELSE stored

\* advanceLevel: the SessionRecord it saves
challengeRecord(g, s) ==
    [ NoRecord EXCEPT
        !.Mode = "challenge",
        !.TextLength = Len(s.text),
        !.DurationMs = Since(g.secs) * SecondTicks * TickMs,
        !.WPM = calculateWPM(g),
        !.CPM = Rat(g.WordsTyped * 60 * 5, Since(g.secs)),
        !.Accuracy = calculateAccuracy(g),
        !.Mistakes = g.Mistakes ]

----------------------------------------------------------------------------
(* part_008: the statistics of the stored history *)

\* length up to which every history over every kind of record is tried
MaxShort == 4
\* length up to which the histories of valid records of three rates are tried
MaxWindow == 7
\* length of the longest histories tried
MaxHistory == 11

Abs(x) == IF x < 0 THEN -x ELSE x

RECURSIVE GCD(_, _)
GCD(a, b) == IF b = 0 THEN a ELSE GCD(b, a % b)

\* float64 arithmetic on exact fractions, kept in lowest terms with a positive
\* denominator
RatNorm(a) ==
    LET g == GCD(Abs(a.n), Abs(a.d))
        sign == IF a.d < 0 THEN -1 ELSE 1
    IN  Rat(sign * (a.n \div g), sign * (a.d \div g))
RatAdd(a, b) == RatNorm(Rat(a.n * b.d + b.n * a.d, a.d * b.d))
RatSub(a, b) == RatNorm(Rat(a.n * b.d - b.n * a.d, a.d * b.d))
RatMul(a, b) == RatNorm(Rat(a.n * b.n, a.d * b.d))
RatDiv(a, b) == RatNorm(Rat(a.n * b.d, a.d * b.n))
RatLt(a, b) == a.n * b.d < b.n * a.d

\* math.Sqrt(q): the non-negative number whose square is q
Sqrt(q) == [sq |-> q]

minValidDurationMs == 15000
minValidTextLength == 60
recentSessionsCount == 5
minSessionsForVariance == 3
minSessionsForImprovement == 10

\* &Statistics{}; TotalTime in milliseconds; the streaks, which are computed
\* from the timestamps of the records alone, are left out
ZeroStatistics ==
    [ TotalSessions |-> 0, TotalTime |-> 0,
      RawAvgWPM |-> Rat(0, 1), RawPeakWPM |-> Rat(0, 1),
      RawAvgAccuracy |-> Rat(0, 1), RawBestAccuracy |-> Rat(0, 1),
      AvgMistakes |-> Rat(0, 1), BackspaceRate |-> Rat(0, 1),
      ValidSessions |-> <<>>,
      NormalizedAvgWPM |-> Rat(0, 1), NormalizedPeakWPM |-> Rat(0, 1),
      RecentValidAvgWPM |-> Rat(0, 1), RecentValidCountUsed |-> 0,
      NetAvgWPM |-> Rat(0, 1), NetPeakWPM |-> Rat(0, 1),
      AdjustedAvgWPM |-> Rat(0, 1), AdjustedPeakWPM |-> Rat(0, 1),
      AvgCorrectedErrors |-> Rat(0, 1), AvgUncorrectedErrors |-> Rat(0, 1),
      ConsistencyScore |-> Sqrt(Rat(0, 1)), ImprovementRate |-> Rat(0, 1),
      VariancePercent |-> Sqrt(Rat(0, 1)), OutlierCount |-> 0 ]

\* total += r[f] over the first k records, for a float64 field
RECURSIVE FloatSum(_, _, _)
FloatSum(recs, f, k) ==
    IF k = 0 THEN Rat(0, 1) ELSE RatAdd(FloatSum(recs, f, k - 1), recs[k][f])

\* total += r[f] over the first k records, for an int field
RECURSIVE IntSum(_, _, _)
IntSum(recs, f, k) ==
    IF k = 0 THEN 0 ELSE IntSum(recs, f, k - 1) + recs[k][f]

\* if r[f] > max { max = r[f] } over the first k records, max starting at start
RECURSIVE FloatMax(_, _, _, _)
FloatMax(recs, f, k, start) ==
    IF k = 0 THEN start
    ELSE LET max == FloatMax(recs, f, k - 1, start)
         IN  IF RatLt(max, recs[k][f]) THEN recs[k][f] ELSE max

calculateBasicStats(recs, st) ==
    LET totalSessions == Len(recs)
        avg(total) == RatDiv(total, Rat(totalSessions, 1))
    IN  [st EXCEPT
           !.RawPeakWPM = FloatMax(recs, "WPM", totalSessions, @),
           !.RawBestAccuracy = FloatMax(recs, "Accuracy", totalSessions, @),
           !.TotalSessions = totalSessions,
           !.TotalTime = IntSum(recs, "DurationMs", totalSessions),
           !.RawAvgWPM = avg(FloatSum(recs, "WPM", totalSessions)),
           !.RawAvgAccuracy = avg(FloatSum(recs, "Accuracy", totalSessions)),
           !.AvgMistakes = avg(Rat(IntSum(recs, "Mistakes", totalSessions), 1)),
           !.BackspaceRate = avg(Rat(IntSum(recs, "BackspaceCount", totalSessions), 1)),
           !.AvgCorrectedErrors =
               avg(Rat(IntSum(recs, "CorrectedErrors", totalSessions), 1)),
           !.AvgUncorrectedErrors =
               avg(Rat(IntSum(recs, "UncorrectedErrors", totalSessions), 1))]

\* a faulty filter that refuses the records at the thresholds, for C25
RECURSIVE filterValid_Strict(_, _)
filterValid_Strict(recs, k) ==
    IF k = 0 THEN <<>>
    ELSE IF /\ recs[k].DurationMs > minValidDurationMs
            /\ recs[k].TextLength > minValidTextLength
         THEN Append(filterValid_Strict(recs, k - 1), recs[k])
         ELSE filterValid_Strict(recs, k - 1)

\* filterValidSessions over the first k records
RECURSIVE filterValid(_, _)
filterValid(recs, k) ==
    IF k = 0 THEN <<>>
    ELSE IF /\ recs[k].DurationMs >= minValidDurationMs
            /\ recs[k].TextLength >= minValidTextLength
         THEN Append(filterValid(recs, k - 1), recs[k])
         ELSE filterValid(recs, k - 1)

filterValidSessions(recs) == filterValid(recs, Len(recs))

calculateNormalizedStats(valid, st) ==
    LET n == Len(valid)
        zero == Rat(0, 1)
    IN  [st EXCEPT
           !.NormalizedAvgWPM = RatDiv(FloatSum(valid, "WPM", n), Rat(n, 1)),
           !.NormalizedPeakWPM = FloatMax(valid, "WPM", n, zero),
           !.NetAvgWPM = RatDiv(FloatSum(valid, "NetWPM", n), Rat(n, 1)),
           !.NetPeakWPM = FloatMax(valid, "NetWPM", n, zero),
           !.AdjustedAvgWPM = RatDiv(FloatSum(valid, "AdjustedWPM", n), Rat(n, 1)),
           !.AdjustedPeakWPM = FloatMax(valid, "AdjustedWPM", n, zero)]

\* a faulty recency window that takes the whole valid list, for C26
calculateRecentPerformance_WholeList(valid, st) ==
    LET recentN == Len(valid)
        recentAvg == RatDiv(FloatSum(valid, "WPM", recentN), Rat(recentN, 1))
    IN  [st EXCEPT !.RecentValidCountUsed = recentN,
                   !.RecentValidAvgWPM = recentAvg]

\* variance += diff * diff over the first k valid records
RECURSIVE squaredDiffs(_, _, _)
squaredDiffs(valid, avg, k) ==
    IF k = 0 THEN Rat(0, 1)
    ELSE LET diff == RatSub(valid[k].WPM, avg)
         IN  RatAdd(squaredDiffs(valid, avg, k - 1), RatMul(diff, diff))

calculateRecentPerformance(valid, st) ==
    LET recentN == IF Len(valid) < recentSessionsCount THEN Len(valid)
                   ELSE recentSessionsCount
        recentAvg == RatDiv(FloatSum(valid, "WPM", recentN), Rat(recentN, 1))
        s1 == [st EXCEPT !.RecentValidCountUsed = recentN,
                         !.RecentValidAvgWPM = recentAvg]
    IN  IF recentN >= minSessionsForVariance /\ recentAvg.n > 0 THEN
            LET variance == RatDiv(squaredDiffs(valid, recentAvg, recentN),
                                   Rat(recentN, 1))
                \* (stdDev / avg) * 100 is the root of variance / avg^2 * 100^2
                score == Sqrt(RatMul(RatDiv(variance, RatMul(recentAvg, recentAvg)),
                                     Rat(100 * 100, 1)))
            IN  [s1 EXCEPT !.ConsistencyScore = score, !.VariancePercent = score]
        ELSE s1

\* a faulty older half that begins right after the newer one, for C27
olderSum_AfterNewer(valid, k) ==
    LET half == Len(valid) \div 2
    IN  RatSub(FloatSum(valid, "WPM", half + k), FloatSum(valid, "WPM", half))

\* a faulty rate that is taken relative to the newer average, for C28
calculateImprovementRate_OverNewer(valid, st) ==
    IF Len(valid) >= minSessionsForImprovement THEN
        LET half == Len(valid) \div 2
            newerAvg == RatDiv(FloatSum(valid, "WPM", half), Rat(half, 1))
            olderAvg == RatDiv(RatSub(FloatSum(valid, "WPM", Len(valid)),
                                      FloatSum(valid, "WPM", Len(valid) - half)),
                               Rat(half, 1))
        IN  IF olderAvg.n > 0
            THEN [st EXCEPT !.ImprovementRate =
                     RatMul(RatDiv(RatSub(newerAvg, olderAvg), newerAvg), Rat(100, 1))]
            ELSE st
    ELSE st

\* olderSum += valid[len(valid)-1-i].WPM for i < k
RECURSIVE olderSum(_, _)
olderSum(valid, k) ==
    IF k = 0 THEN Rat(0, 1)
    ELSE RatAdd(olderSum(valid, k - 1), valid[Len(valid) - (k - 1)].WPM)

calculateImprovementRate(valid, st) ==
    IF Len(valid) >= minSessionsForImprovement THEN
        LET half == Len(valid) \div 2
            newerAvg == RatDiv(FloatSum(valid, "WPM", half), Rat(half, 1))
            olderAvg == RatDiv(olderSum(valid, half), Rat(half, 1))
        IN  IF olderAvg.n > 0
            THEN [st EXCEPT !.ImprovementRate =
                     RatMul(RatDiv(RatSub(newerAvg, olderAvg), olderAvg), Rat(100, 1))]
            ELSE st
    ELSE st

calculateStatistics(recs) ==
    IF Len(recs) = 0 THEN ZeroStatistics
    ELSE
        LET s1 == calculateBasicStats(recs, ZeroStatistics)
            valid == filterValidSessions(recs)
            s2 == [s1 EXCEPT !.ValidSessions = valid,
                             !.OutlierCount = Len(recs) - Len(valid)]
        IN  IF Len(valid) = 0 THEN s2
            ELSE calculateImprovementRate(valid,
                     calculateRecentPerformance(valid,
                         calculateNormalizedStats(valid, s2)))

----------------------------------------------------------------------------
(* cmd/statistics.go: the statistics of the JSON export *)

\* the zero value of the Statistics of package cmd, the streaks left out
ZeroExport ==
    [ TotalSessions |-> 0, TotalTime |-> 0,
      RawAvgWPM |-> Rat(0, 1), RawPeakWPM |-> Rat(0, 1),
      RawAvgAccuracy |-> Rat(0, 1), RawBestAccuracy |-> Rat(0, 1),
      AvgMistakes |-> Rat(0, 1), BackspaceRate |-> Rat(0, 1),
      ValidSessions |-> <<>>,
      NormalizedAvgWPM |-> Rat(0, 1), NormalizedPeakWPM |-> Rat(0, 1),
      RecentValidAvgWPM |-> Rat(0, 1), RecentValidCountUsed |-> 0,
      ConsistencyScore |-> Sqrt(Rat(0, 1)), ImprovementRate |-> Rat(0, 1),
      VariancePercent |-> Sqrt(Rat(0, 1)), OutlierCount |-> 0 ]

\* calculateStatistics of package cmd, lines 194-200: the valid records among
\* the first k
RECURSIVE exportValid(_, _)
exportValid(recs, k) ==
    IF k = 0 THEN <<>>
    ELSE IF recs[k].DurationMs >= 15 * 1000 /\ recs[k].TextLength >= 60
         THEN Append(exportValid(recs, k - 1), recs[k])
         ELSE exportValid(recs, k - 1)

\* calculateStatistics of package cmd
exportCalculateStatistics(recs) ==
    LET totalSessions == Len(recs)
        avg(total) == RatDiv(total, Rat(totalSessions, 1))
        s1 == [ZeroExport EXCEPT
                 !.RawPeakWPM = FloatMax(recs, "WPM", totalSessions, @),
                 !.RawBestAccuracy = FloatMax(recs, "Accuracy", totalSessions, @),
                 !.TotalSessions = totalSessions,
                 !.TotalTime = IntSum(recs, "DurationMs", totalSessions),
                 !.RawAvgWPM = avg(FloatSum(recs, "WPM", totalSessions)),
                 !.RawAvgAccuracy = avg(FloatSum(recs, "Accuracy", totalSessions)),
                 !.AvgMistakes = avg(Rat(IntSum(recs, "Mistakes", totalSessions), 1)),
                 !.BackspaceRate = Rat(0, 1)]
        valid == exportValid(recs, totalSessions)
        n == Len(valid)
        s2 == [s1 EXCEPT !.ValidSessions = valid,
                         !.OutlierCount = totalSessions - n]
        s3 == [s2 EXCEPT
                 !.NormalizedAvgWPM = RatDiv(FloatSum(valid, "WPM", n), Rat(n, 1)),
                 !.NormalizedPeakWPM = FloatMax(valid, "WPM", n, Rat(0, 1))]
        recentN == IF n < 5 THEN n ELSE 5
        recentAvg == RatDiv(FloatSum(valid, "WPM", recentN), Rat(recentN, 1))
        s4 == [s3 EXCEPT !.RecentValidCountUsed = recentN,
                         !.RecentValidAvgWPM = recentAvg]
        variance == RatDiv(squaredDiffs(valid, recentAvg, recentN), Rat(recentN, 1))
        score == Sqrt(RatMul(RatDiv(variance, RatMul(recentAvg, recentAvg)),
                             Rat(100 * 100, 1)))
        s5 == IF recentN >= 3 /\ recentAvg.n > 0
              THEN [s4 EXCEPT !.ConsistencyScore = score, !.VariancePercent = score]
              ELSE s4
        half == n \div 2
        newerAvg == RatDiv(FloatSum(valid, "WPM", half), Rat(half, 1))
        olderAvg == RatDiv(olderSum(valid, half), Rat(half, 1))
    IN  IF totalSessions = 0 THEN ZeroExport
        ELSE IF n = 0 THEN s2
        ELSE IF n >= 10 /\ olderAvg.n > 0
             THEN [s5 EXCEPT !.ImprovementRate =
                      RatMul(RatDiv(RatSub(newerAvg, olderAvg), olderAvg), Rat(100, 1))]
             ELSE s5

----------------------------------------------------------------------------
(* session.go: the quotes fetched from the network *)

\* most quotes a quotes command is asked for
MaxCount == 12

Quote(text, author) == [Text |-> text, Author |-> author]

\* Quote{Text: config.DefaultPracticeText, Author: "Unknown"}
DefaultQuote == Quote(DefaultPracticeText, "Unknown")

\* what client.Get and the reading of the body give: err, the transport error
\* or the timeout; status, the StatusCode; readErr, the error of io.ReadAll;
\* parsed, whether json.Unmarshal accepts the body; list, the QuoteResponses
Reply(err, status, readErr, parsed, list) ==
    [err |-> err, status |-> status, readErr |-> readErr, parsed |-> parsed,
     list |-> list]

QuoteResponse(q, a) == [Q |-> q, A |-> a]

\* the replies of the server, one of each kind
Replies ==
    { Reply(TRUE, 0, FALSE, FALSE, <<>>),
      Reply(FALSE, 404, FALSE, TRUE, <<QuoteResponse(<<"y">>, "A")>>),
      Reply(FALSE, 500, FALSE, FALSE, <<>>),
      Reply(FALSE, 200, TRUE, FALSE, <<>>),
      Reply(FALSE, 200, FALSE, FALSE, <<>>),
      Reply(FALSE, 200, FALSE, TRUE, <<>>),
      Reply(FALSE, 200, FALSE, TRUE, <<QuoteResponse(<<>>, "A")>>),
      Reply(FALSE, 200, FALSE, TRUE, <<QuoteResponse(<<"y">>, "A")>>),
      Reply(FALSE, 200, FALSE, TRUE,
            <<QuoteResponse(<<"y">>, "A"), QuoteResponse(<<>>, "B")>>) }

\* a faulty fetch that takes the first quote of the list as it is, for C31
FetchQuoteWithAuthor_AnyText(reply) ==
    IF reply.err THEN DefaultQuote
    ELSE IF reply.status # 200 THEN DefaultQuote
    ELSE IF reply.readErr THEN DefaultQuote
    ELSE IF ~reply.parsed THEN DefaultQuote
    ELSE IF Len(reply.list) = 0 THEN DefaultQuote
    ELSE Quote(reply.list[1].Q, reply.list[1].A)

\* FetchQuoteWithAuthor, after its one client.Get
FetchQuoteWithAuthor(reply) ==
    IF reply.err THEN DefaultQuote
    ELSE IF reply.status # 200 THEN DefaultQuote
    ELSE IF reply.readErr THEN DefaultQuote
    ELSE IF ~reply.parsed THEN DefaultQuote
    ELSE IF Len(reply.list) = 0 THEN DefaultQuote
    ELSE IF reply.list[1].Q = <<>> THEN DefaultQuote
    ELSE Quote(reply.list[1].Q, reply.list[1].A)

\* FetchMultipleQuotes, lines 98-103: the clamp of count
quoteCount(count) == IF count <= 0 THEN 1 ELSE IF count > 10 THEN 10 ELSE count

\* FetchMultipleQuotes, the body of the loop after its client.Get: the quote
\* appended
fetchedQuote(reply) ==
    IF reply.err THEN DefaultQuote
    ELSE IF reply.status # 200 THEN DefaultQuote
    ELSE IF reply.readErr THEN DefaultQuote
    ELSE IF ~reply.parsed \/ Len(reply.list) = 0 THEN DefaultQuote
    ELSE IF reply.list[1].Q # <<>> THEN Quote(reply.list[1].Q, reply.list[1].A)
    ELSE DefaultQuote

\* no quote asked for yet; op: the function called; asked: its count argument;
\* count: the clamped count; requests: the calls of client.Get; reply: the last
\* reply; quotes: the quotes built; returned: the function has returned
NoFetch ==
    [op |-> "none", asked |-> 0, count |-> 0, requests |-> 0,
     reply |-> Reply(FALSE, 0, FALSE, FALSE, <<>>), quotes |-> <<>>,
     returned |-> FALSE]

----------------------------------------------------------------------------
(* The state machine *)

\* chars: character keys processed; mistakesMade: those that did not match;
\* chunkChars: the lengths of the chunks typed to their end; pending: the
\* characters standing in the chunk not yet typed to its end; saves: records
\* stored; expired: the timer ended the run; ignored: a key or a tick reached
\* the session after it had ended; panicked: a run-time panic ended the program;
\* chunks: the chunks typed to their end; first: chunkIndex as the run began
NewRun == [chars |-> 0, mistakesMade |-> 0, chunkChars |-> 0, pending |-> 0,
           saves |-> 0, expired |-> FALSE, ignored |-> FALSE, panicked |-> FALSE,
           chunks |-> 0, first |-> 0]

\* the history of a run that begins on session s
RunFrom(s) == [NewRun EXCEPT !.first = s.chunkIndex]

MaxElapsed == LimitTicks + 1

\* the event loop and the store before the program's model is initialised
InitLoop ==
    /\ m = [mode |-> "typing", quitting |-> FALSE, started |-> FALSE]
    /\ elapsed = 0
    /\ ticks = 0
    /\ completeMsgs = 0
    /\ records = [count |-> 0, last |-> NoRecord]
    /\ keys = 0
    /\ run = NewRun
    /\ history = <<>>
    /\ stats = ZeroStatistics
    /\ exported = ZeroExport
    /\ net = NoFetch

\* StartAppWithOptions: tui.NewModel over a new session
Init ==
    /\ \E c \in Configs, gen \in Gens : sess = NewSession(c, gen)
    /\ game = NoGame
    /\ InitLoop

\* StartChallengeGame: NewGameModel
InitGame ==
    /\ \E progress \in Progresses, gen \in Gens :
         LET new == NewGameModel(progress, gen)
         IN  sess = new.sess /\ game = new.game
    /\ InitLoop

Live == m.started /\ ~m.quitting

\* the program runs the tui.Model, which leaves the GameState alone
Tui == ~game.on /\ UNCHANGED <<game, history, stats, exported, net>>

\* a tick command joins the ones in flight
Scheduled(n) == IF n < MaxTicks THEN n + 1 ELSE n

\* Model.Init: m.sess.Start()
ModelInit ==
    /\ Tui /\ ~m.started
    /\ m' = [m EXCEPT !.started = TRUE]
    /\ sess' = Start(sess)
    /\ elapsed' = 0
    /\ ticks' = Scheduled(ticks)
    /\ run' = RunFrom(sess')
    /\ UNCHANGED <<completeMsgs, records, keys>>

\* the values time.Since(s.startTime) may have when it is read next: the clock
\* is monotonic, and readings beyond MaxElapsed are not distinguished
Readings == elapsed..MaxElapsed
\* the readings a timer period or more after the last one
LateReadings == {n \in Readings : n > elapsed \/ n = MaxElapsed}

\* the effects of an Outcome on the event loop and the store
Apply(out) ==
    /\ sess' = out.sess
    /\ records' = SaveSessionRecords(records, out.saved)
    /\ completeMsgs' = IF out.complete THEN completeMsgs + 1 ELSE completeMsgs
    /\ ticks' = IF out.tick THEN Scheduled(ticks) ELSE ticks

\* the number of keys HandleInput processes in one behaviour
KeyBudget(s) == IF s.isGroupMode THEN MaxPageKeys ELSE MaxKeys

\* handleTypingKey, default: m.sess.HandleInput(key)
TypeKey(key, now, gen) ==
    LET out == HandleInput(sess, key, now, gen)
        typed == acceptsInput(sess) /\ key \in Alphabet
        matched == /\ typed /\ sess.position < Len(sess.text)
                   /\ key = sess.text[sess.position + 1]
        boundary == typed /\ sess.position + 1 >= Len(sess.text)
    IN  /\ acceptsInput(sess) /\ key \in Alphabet \cup {"backspace"} => keys < KeyBudget(sess)
        /\ Apply(out)
        /\ m' = IF out.panic THEN [m EXCEPT !.quitting = TRUE] ELSE m
        /\ keys' = IF acceptsInput(sess) /\ key \in Alphabet \cup {"backspace"}
                   THEN keys + 1 ELSE keys
        /\ run' = [run EXCEPT
                     !.chars = IF typed THEN @ + 1 ELSE @,
                     !.mistakesMade = IF typed /\ ~matched THEN @ + 1 ELSE @,
                     !.chunkChars = IF boundary THEN @ + Len(sess.text) ELSE @,
                     !.chunks = IF boundary THEN @ + 1 ELSE @,
                     !.pending = IF boundary THEN 0
                                 ELSE IF typed THEN @ + 1
                                 ELSE IF acceptsInput(sess) /\ key = "backspace" /\ @ > 0
                                      THEN @ - 1
                                 ELSE @,
                     !.ignored = @ \/ ~acceptsInput(sess),
                     !.saves = @ + Len(out.saved),
                     !.panicked = out.panic]
        /\ elapsed' = IF acceptsInput(sess) THEN now ELSE elapsed

\* Restart, from Esc while typing or Enter on the results screen
DoRestart ==
    /\ sess.completed => records.count < MaxRecords
    /\ sess' = Restart(sess)
    /\ elapsed' = 0
    /\ ticks' = Scheduled(ticks)
    /\ run' = RunFrom(sess')
    /\ UNCHANGED <<completeMsgs, records, keys>>

Overlay(mode) ==
    /\ m' = [m EXCEPT !.mode = mode]
    /\ UNCHANGED <<sess, elapsed, ticks, completeMsgs, records, keys, run>>

Quit ==
    /\ m' = [m EXCEPT !.quitting = TRUE]
    /\ UNCHANGED <<sess, elapsed, ticks, completeMsgs, records, keys, run>>

\* the keys that reach the session: characters, backspace, Enter (to HandleInput
\* a key that is neither, on the results screen a restart) and Esc (a restart)
SessionKeys == Alphabet \cup {"backspace", "enter", "esc"}
\* the keys the terminal delivers
Keys == SessionKeys \cup {"ctrl+c", "ctrl+q", "ctrl+h"}

\* handleTypingKey for one key
handleTypingKey(key, now, gen) ==
    IF key = "ctrl+c" THEN Quit
    ELSE IF key = "ctrl+q" THEN Overlay("quit")
    ELSE IF key = "ctrl+h" THEN Overlay("help")
    ELSE IF key = "esc" THEN DoRestart /\ UNCHANGED m
    ELSE TypeKey(key, now, gen)

\* handleKey in ModeTyping, the user leaving the overlays and Ctrl+C alone
KeyTyping ==
    /\ Tui /\ Live /\ m.mode = "typing"
    /\ \E key \in SessionKeys :
         \E now \in (IF sess.running THEN Readings ELSE {elapsed}),
            gen \in GensFor(sess, key) :
              handleTypingKey(key, now, gen)

\* handleKey in ModeTyping, Ctrl+C, Ctrl+Q and Ctrl+H
KeyControl ==
    /\ Tui /\ Live /\ m.mode = "typing"
    /\ \E key \in Keys \ SessionKeys : handleTypingKey(key, elapsed, <<TextA>>)

\* handleKey in ModeHelp
KeyHelp ==
    /\ Tui /\ Live /\ m.mode = "help"
    /\ \E key \in Keys :
         IF key = "esc" THEN Overlay("typing") ELSE Overlay("help")

\* handleKey in ModeResults
KeyResults ==
    /\ Tui /\ Live /\ m.mode = "results"
    /\ \E key \in SessionKeys \ {"esc"} :
         IF key = "enter" THEN DoRestart /\ m' = [m EXCEPT !.mode = "typing"]
         ELSE Overlay("results")

\* handleKey in ModeResults: Esc quits
KeyResultsEsc ==
    /\ Tui /\ Live /\ m.mode = "results"
    /\ Quit

\* handleKey in ModeQuit
KeyQuit ==
    /\ Tui /\ Live /\ m.mode = "quit"
    /\ \E key \in Keys :
         IF key = "y" THEN Quit ELSE Overlay("typing")

\* Update, case session.SessionCompleteMsg
SessionComplete ==
    /\ Tui /\ Live /\ completeMsgs > 0
    /\ completeMsgs' = completeMsgs - 1
    /\ m' = [m EXCEPT !.mode = "results"]
    /\ UNCHANGED <<sess, elapsed, ticks, records, keys, run>>

\* Update, case session.TimerTickMsg: m.sess.UpdateTimer(), reading the clock at now
DeliverTick(now) ==
    LET out == UpdateTimer(sess, now)
    IN  /\ sess' = out.sess
        /\ records' = SaveSessionRecords(records, out.saved)
        /\ completeMsgs' = IF out.complete THEN completeMsgs + 1 ELSE completeMsgs
        /\ ticks' = IF out.tick THEN ticks ELSE ticks - 1
        /\ run' = [run EXCEPT !.saves = @ + Len(out.saved),
                               !.expired = @ \/ out.complete,
                               !.ignored = @ \/ ~sess.running]
        /\ elapsed' = IF sess.running THEN now ELSE elapsed
        /\ UNCHANGED <<m, keys>>

\* a tick delivered a timer period or more after the clock was last read
TimerTick ==
    /\ Tui /\ Live /\ ticks > 0
    /\ \E now \in (IF sess.running THEN LateReadings ELSE {elapsed}) : DeliverTick(now)

\* a tick of a second chain (one more Start) delivered within the same period
TimerTickEarly ==
    /\ Tui /\ Live /\ ticks > 0
    /\ DeliverTick(elapsed)

\* the program runs the challenge GameModel
Game == game.on /\ Live /\ UNCHANGED <<history, stats, exported, net>>

\* GameModel.Init: m.sess.Start() and m.tickTimer()
GameInit ==
    /\ game.on /\ ~m.started
    /\ m' = [m EXCEPT !.started = TRUE]
    /\ sess' = Start(sess)
    /\ elapsed' = 0
    /\ ticks' = Scheduled(ticks)
    /\ game' = [game EXCEPT !.ticks = @ + 1]
    /\ run' = NewRun
    /\ UNCHANGED <<completeMsgs, records, keys, history, stats, exported, net>>

\* retryLevel
retryLevel ==
    \E gen \in Gens :
        LET new == resetLevelState(game, sess, gen)
        IN  /\ game' = new.game
            /\ sess' = new.sess
            /\ elapsed' = 0
            /\ run' = NewRun
            /\ UNCHANGED <<m, ticks, completeMsgs, records, keys>>

\* advanceLevel
advanceLevel ==
    /\ records.count < MaxRecords
    /\ records' = SaveSessionRecords(records, <<challengeRecord(game, sess)>>)
    /\ LET g1 == [game EXCEPT
                    !.progress = UpdateProgress(@, game.CurrentLevel),
                    !.CurrentLevel = @ + 1]
       IN  IF g1.CurrentLevel >= Len(Levels)
           THEN /\ game' = g1
                /\ m' = [m EXCEPT !.quitting = TRUE]
                /\ UNCHANGED <<sess, elapsed, run>>
           ELSE \E gen \in Gens :
                    LET new == resetLevelState(g1, sess, gen)
                    IN  /\ game' = new.game
                        /\ sess' = new.sess
                        /\ elapsed' = 0
                        /\ run' = NewRun
                        /\ UNCHANGED m
    /\ UNCHANGED <<ticks, completeMsgs, keys>>

\* the keys the player of a challenge presses
GameKeys == SessionKeys \cup {"r"}

\* GameModel.handleKey outside the overlays, Ctrl+C, Ctrl+Q and Ctrl+H left
\* alone; r is pressed on the screen of a level that ended
GamePlayKey ==
    /\ Game /\ m.mode = "typing"
    /\ \E key \in (IF game.Phase \in {"complete", "failed"} THEN GameKeys ELSE SessionKeys) :
         IF key = "esc" THEN retryLevel
         ELSE IF game.Phase = "complete" THEN
             IF key = "enter" THEN advanceLevel ELSE UNCHANGED vars
         ELSE IF game.Phase = "failed" THEN
             IF key = "r" THEN retryLevel ELSE UNCHANGED vars
         ELSE /\ \E now \in {elapsed, MaxElapsed} : TypeKey(key, now, <<TextA>>)
              /\ UNCHANGED game

\* GameModel.handleKey: Ctrl+C, Ctrl+Q and Ctrl+H, and the help and quit overlays
GameControlKey ==
    /\ Game
    /\ \E key \in Keys :
         IF m.mode = "help" THEN
             IF key = "esc" THEN m' = [m EXCEPT !.mode = "typing"] ELSE UNCHANGED m
         ELSE IF m.mode = "quit" THEN
             IF key = "y" THEN m' = [m EXCEPT !.quitting = TRUE]
             ELSE m' = [m EXCEPT !.mode = "typing"]
         ELSE /\ key \in Keys \ SessionKeys
              /\ m' = IF key = "ctrl+c" THEN [m EXCEPT !.quitting = TRUE]
                       ELSE IF key = "ctrl+q" THEN [m EXCEPT !.mode = "quit"]
                       ELSE [m EXCEPT !.mode = "help"]
    /\ UNCHANGED <<sess, elapsed, ticks, completeMsgs, records, keys, run, game>>

\* GameModel.Update, case session.SessionCompleteMsg
GameSessionComplete ==
    /\ Game /\ completeMsgs > 0
    /\ completeMsgs' = completeMsgs - 1
    /\ \E gen \in (IF Levels[game.CurrentLevel + 1].BossRound /\ game.Phase # "boss"
                    THEN {<<TextA>>} ELSE Gens) :
         LET new == handleSessionComplete(game, sess, gen)
         IN  /\ game' = new.game
             /\ sess' = new.sess
             /\ elapsed' = IF new.sess = sess THEN elapsed ELSE 0
    /\ UNCHANGED <<m, ticks, records, keys, run>>

\* GameModel.Update, case TickMsg
GameTick ==
    /\ Game /\ game.ticks > 0
    /\ game' = handleTick(game)
    /\ UNCHANGED <<sess, m, elapsed, ticks, completeMsgs, records, keys, run>>

\* GameModel.Update has no case for the session's TimerTickMsg
GameSessionTick ==
    /\ Game /\ ticks > 0
    /\ ticks' = ticks - 1
    /\ UNCHANGED <<sess, m, elapsed, completeMsgs, records, keys, run, game>>

\* The session under the event loop, the user typing, restarting and reading
\* the results
Next ==
    \/ ModelInit
    \/ KeyTyping
    \/ KeyResults
    \/ SessionComplete
    \/ TimerTick
    \/ TimerTickEarly

Spec == Init /\ [][Next]_vars

\* The whole of Model.Update for the sessions with a time limit: the help and
\* quit overlays and the keys that end the program as well
InitTimed == Init /\ sess.timeLimit > 0 /\ sess.mode \in {"timed", "code"}

NextTui ==
    \/ Next
    \/ KeyControl
    \/ KeyHelp
    \/ KeyResultsEsc
    \/ KeyQuit

\* the runtime delivers the commands it was handed, a tick a period after it
\* was scheduled
SpecLive ==
    /\ InitTimed /\ [][NextTui]_vars
    /\ WF_vars(ModelInit) /\ WF_vars(TimerTick)

\* A custom file begun at whatever paragraph number the command line carries,
\* with and without a time limit
InitCustom ==
    /\ \E k \in AnyStarts, gen \in Gens :
         \/ sess = NewSession([ZeroConfig EXCEPT !.Mode = "custom", !.HasFile = TRUE,
                                                 !.File = FileParagraphs, !.Start = k],
                               gen)
         \/ sess = NewSession([ZeroConfig EXCEPT
                                  !.Mode = "custom-timed",
                                  !.Text = GetParagraphAtStart(FileParagraphs, k),
                                  !.AllChunks = FileParagraphs, !.ChunkIndex = k - 1,
                                  !.TimeLimit = LimitTicks],
                               gen)
    /\ game = NoGame
    /\ InitLoop

SpecCustom == InitCustom /\ [][Next]_vars

\* Practice with a chunk limit, its chunks shown one by one or in pages
InitPaged ==
    /\ \E n \in PagedLimits, gen \in PageGens :
         sess = NewSession([ZeroConfig EXCEPT !.Mode = "practice", !.MaxChunks = n], gen)
    /\ game = NoGame
    /\ InitLoop

NextPaged ==
    \/ ModelInit
    \/ KeyTyping
    \/ KeyResults
    \/ SessionComplete

SpecPaged == InitPaged /\ [][NextPaged]_vars

\* The session under the challenge game, the player typing, retrying and
\* advancing
NextGame ==
    \/ GameInit
    \/ GamePlayKey
    \/ GameSessionComplete
    \/ GameTick
    \/ GameSessionTick

\* The session in every mode: under the event loop and under the challenge game
SpecModes == (Init \/ InitGame) /\ [][Next \/ NextGame]_vars

\* The challenge game, the player typing, retrying and advancing
SpecGame == InitGame /\ [][NextGame]_vars

\* the player leaves the challenge and runs it again: StartChallengeGame with
\* the progress UpdateProgress has stored; levels[startingLevel] is a run-time
\* panic beyond the last level
GameNewGame ==
    /\ game.on /\ m.started
    /\ \E gen \in Gens :
         LET progress == game.progress
         IN  IF GetStartingLevel(progress) >= Len(Levels)
             THEN /\ game' = [NoGame EXCEPT !.on = TRUE, !.progress = progress,
                                            !.CurrentLevel = GetStartingLevel(progress)]
                  /\ sess' = NewSession([ZeroConfig EXCEPT !.Mode = "challenge"], gen)
                  /\ m' = [mode |-> "typing", quitting |-> TRUE, started |-> TRUE]
                  /\ run' = [NewRun EXCEPT !.panicked = TRUE]
             ELSE LET new == NewGameModel(progress, gen)
                  IN  /\ game' = new.game
                      /\ sess' = new.sess
                      /\ m' = [mode |-> "typing", quitting |-> FALSE, started |-> FALSE]
                      /\ run' = NewRun
    /\ elapsed' = 0 /\ ticks' = 0 /\ completeMsgs' = 0
    /\ UNCHANGED <<records, keys, history, stats, exported, net>>

\* The challenge game played again and again
SpecReplay == InitGame /\ [][NextGame \/ GameNewGame]_vars

\* the player types, retries a level that ended and advances, and leaves a
\* level in play to its countdown
GamePlayOn == GamePlayKey /\ (game.Phase = "normal" => game' = game)

NextGameLive ==
    \/ GameInit
    \/ GamePlayOn
    \/ GameSessionComplete
    \/ GameTick
    \/ GameSessionTick

\* The challenge game under the bubbletea runtime, which runs Init and delivers
\* every message a command produces
SpecGameLive ==
    /\ InitGame /\ [][NextGameLive]_vars
    /\ WF_vars(GameInit) /\ WF_vars(GameTick)
    /\ WF_vars(GameSessionComplete) /\ WF_vars(GameSessionTick)

\* The whole of GameModel.Update
SpecChallenge == InitGame /\ [][NextGame \/ GameControlKey]_vars

----------------------------------------------------------------------------
(* The statistics command *)

\* a stored record, with the fields the statistics read
Rec(wpm, accuracy, mistakes, durationMs, textLength) ==
    [NoRecord EXCEPT !.Mode = "practice", !.WPM = Rat(wpm, 1),
                     !.NetWPM = Rat(wpm, 1), !.AdjustedWPM = Rat(wpm, 1),
                     !.CPM = Rat(wpm * CharsPerWord, 1),
                     !.Accuracy = Rat(accuracy, 1), !.Mistakes = mistakes,
                     !.DurationMs = durationMs, !.TextLength = textLength]

\* valid records, the first at both thresholds
ValidRecords ==
    { Rec(3, 100, 0, minValidDurationMs, minValidTextLength),
      [Rec(1, 90, 2, 20000, 80) EXCEPT !.BackspaceCount = 3, !.CorrectedErrors = 1,
                                       !.UncorrectedErrors = 1],
      Rec(0, 100, 0, minValidDurationMs, minValidTextLength) }
\* records too short in time or in text, one of them with the negative
\* accuracy of mismatches typed again after a backspace
ShortRecords ==
    { Rec(5, 95, 1, minValidDurationMs - TickMs, minValidTextLength),
      Rec(4, 80, 3, minValidDurationMs, minValidTextLength - 1),
      Rec(6, -100, 2, TickMs, 2) }
\* the rates of the long histories
LongRecords ==
    { Rec(3, 100, 0, minValidDurationMs, minValidTextLength),
      Rec(0, 100, 0, minValidDurationMs, minValidTextLength) }

\* twelve valid records, newest first
ExampleHistory ==
    [i \in 1..12 |->
        Rec(<<60, 58, 55, 50, 48, 45, 44, 42, 40, 38, 36, 35>>[i], 95, 1, 60000, 200)]

SeqsOver(S, lo, hi) == UNION {[1..n -> S] : n \in lo..hi}

\* history h with record r put before its i-th record
InsertAt(h, i, r) == SubSeq(h, 1, i - 1) \o <<r>> \o SubSeq(h, i, Len(h))

\* the histories the store may hold when the statistics are asked for
Histories ==
    LET long == SeqsOver(LongRecords, MaxWindow + 1, MaxHistory)
        short == CHOOSE r \in ShortRecords : r.DurationMs = TickMs
    IN  SeqsOver(ValidRecords \cup ShortRecords, 0, MaxShort)
        \cup SeqsOver(ValidRecords, MaxShort + 1, MaxWindow)
        \cup long
        \cup {InsertAt(h, i, short) : h \in long, i \in {1, MaxShort + 1}}
        \cup {ExampleHistory}

\* the statistics command before it has read the store
InitStatistics ==
    /\ sess = ZeroSession
    /\ game = NoGame
    /\ m = [mode |-> "typing", quitting |-> FALSE, started |-> FALSE]
    /\ elapsed = 0
    /\ ticks = 0
    /\ completeMsgs = 0
    /\ records = [count |-> 0, last |-> NoRecord]
    /\ keys = 0
    /\ run = NewRun
    /\ history \in Histories
    /\ stats = ZeroStatistics
    /\ exported = ZeroExport
    /\ net = NoFetch

\* the statistics view: calculateStatistics over the loaded records
ShowStatistics ==
    /\ stats.TotalSessions = 0
    /\ stats' = calculateStatistics(history)
    /\ UNCHANGED <<sess, m, elapsed, ticks, completeMsgs, records, keys, run, game,
                   history, exported, net>>

\* statistics --json, view all-time: exportStatisticsJSON over the loaded records
ExportStatistics ==
    /\ exported.TotalSessions = 0
    /\ exported' = exportCalculateStatistics(history)
    /\ UNCHANGED <<sess, m, elapsed, ticks, completeMsgs, records, keys, run, game,
                   history, stats, net>>

NextStatistics ==
    \/ ShowStatistics
    \/ ExportStatistics

SpecStatistics == InitStatistics /\ [][NextStatistics]_vars

----------------------------------------------------------------------------
(* The quotes command *)

\* the quotes command before it has asked for a quote
InitQuotes ==
    /\ sess = ZeroSession
    /\ game = NoGame
    /\ InitLoop

Quotes == UNCHANGED <<sess, m, elapsed, ticks, completeMsgs, records, keys, run,
                      game, history, stats, exported>>

\* quotes with a count of 1 or less: FetchQuoteWithAuthor
FetchOneQuote ==
    /\ Quotes /\ net.op = "none"
    /\ \E reply \in Replies :
         net' = [NoFetch EXCEPT !.op = "one", !.asked = 1, !.count = 1,
                                !.requests = 1, !.reply = reply,
                                !.quotes = <<FetchQuoteWithAuthor(reply)>>,
                                !.returned = TRUE]

\* quotes with a count above 1: FetchMultipleQuotes, up to its loop
FetchMultipleQuotes ==
    /\ Quotes /\ net.op = "none"
    /\ \E count \in -1..MaxCount :
         net' = [NoFetch EXCEPT !.op = "many", !.asked = count,
                                !.count = quoteCount(count)]

\* FetchMultipleQuotes, one turn of its loop: client.Get and the quote appended
FetchNextQuote ==
    /\ Quotes /\ net.op = "many" /\ ~net.returned
    /\ Len(net.quotes) < net.count
    /\ \E reply \in Replies :
         net' = [net EXCEPT !.requests = @ + 1, !.reply = reply,
                            !.quotes = Append(@, fetchedQuote(reply))]

\* FetchMultipleQuotes, lines 144-148: after the loop
ReturnQuotes ==
    /\ Quotes /\ net.op = "many" /\ ~net.returned
    /\ Len(net.quotes) >= net.count
    /\ net' = [net EXCEPT !.returned = TRUE,
                          !.quotes = IF Len(@) = 0 THEN <<DefaultQuote>> ELSE @]

NextQuotes ==
    \/ FetchOneQuote
    \/ FetchMultipleQuotes
    \/ FetchNextQuote
    \/ ReturnQuotes

SpecQuotes == InitQuotes /\ [][NextQuotes]_vars

----------------------------------------------------------------------------
(* levels.go and part_007: the built-in levels of the challenge *)

DifficultyTier(start, end, baseAccuracy, timeBase, charBase) ==
    [StartLevel |-> start, EndLevel |-> end, BaseAccuracy |-> baseAccuracy,
     TimeBase |-> timeBase, CharBase |-> charBase]

\* difficultyTiers; the mistake base, which neither the boss rounds nor the
\* accuracy are built from, is left out
difficultyTiers ==
    << DifficultyTier(1, 10, Rat(900, 10), 30, 15),
       DifficultyTier(11, 25, Rat(920, 10), 35, 50),
       DifficultyTier(26, 50, Rat(940, 10), 40, 100),
       DifficultyTier(51, 75, Rat(960, 10), 45, 200),
       DifficultyTier(76, 95, Rat(975, 10), 50, 300),
       DifficultyTier(96, 100, Rat(985, 10), 60, 400) >>

\* math.Round(x * 10) / 10 of a positive x: the nearest tenth, a half rounded
\* up
RoundToTenth(x) == Rat((2 * 10 * x.n + x.d) \div (2 * x.d), 10)

\* GetBuiltInLevels, lines 139, 145-147 and 159-161: the accuracy of level i of
\* the tier, tier.BaseAccuracy + progress * progress * 4.0 with
\* progress = i / (levelsInTier - 1), before it is rounded
levelAccuracy(tier, i) ==
    LET levelsInTier == tier.EndLevel - tier.StartLevel + 1
        span == (levelsInTier - 1) * (levelsInTier - 1)
        raw == Rat(tier.BaseAccuracy.n * span + 4 * i * i * tier.BaseAccuracy.d,
                   tier.BaseAccuracy.d * span)
        accuracy == IF RatLe(raw, Rat(85, 1)) THEN Rat(85, 1) ELSE raw
    IN  IF tier.StartLevel + i = 100 THEN Rat(995, 10) ELSE accuracy

bossInterval == 5

\* a faulty boss rule that counts the levels of a tier from 0, for C30
isBoss_FromZero(i, levelNum) == i % bossInterval = 0 \/ levelNum = 100

\* GetBuiltInLevels, line 133
isBoss(i, levelNum) == (i + 1) % bossInterval = 0 \/ levelNum = 100

\* GetBuiltInLevels, the body of the inner loop: level i of the tier;
\* int(progress * progress * k) is the floor of k * i^2 / (levelsInTier - 1)^2
builtInLevel(tier, i) ==
    LET levelsInTier == tier.EndLevel - tier.StartLevel + 1
        levelNum == tier.StartLevel + i
        curve(k) == (k * i * i) \div ((levelsInTier - 1) * (levelsInTier - 1))
        time == tier.TimeBase + curve(15)
        chars == tier.CharBase + curve(200)
        timeSeconds == IF time < 20 THEN 20 ELSE time
        charCount == IF chars < 10 THEN 10 ELSE chars
    IN  [ Num |-> levelNum,
          MinAccuracy |-> RoundToTenth(levelAccuracy(tier, i)),
          TimeSeconds |-> IF levelNum = 100 THEN 120 ELSE timeSeconds,
          MinChars |-> IF levelNum = 100 THEN 2000 ELSE charCount,
          IsBoss |-> isBoss(i, levelNum) ]

\* the inner loop: the levels of a tier, in order
tierLevels(tier) ==
    [n \in 1..(tier.EndLevel - tier.StartLevel + 1) |-> builtInLevel(tier, n - 1)]

\* the outer loop: the levels appended for the first t tiers
RECURSIVE builtInLevels(_)
builtInLevels(t) ==
    IF t = 0 THEN <<>>
    ELSE builtInLevels(t - 1) \o tierLevels(difficultyTiers[t])

GetBuiltInLevels == builtInLevels(Len(difficultyTiers))

\* a level without a BossRound
NoBossRound == [Words |-> 0, TimeLimit |-> 0]

\* StartChallengeGame: the challenge.Level of each built-in level
ChallengeLevels ==
    [n \in 1..Len(GetBuiltInLevels) |->
        LET level == GetBuiltInLevels[n]
            words == level.MinChars \div 5
        IN  [ Time |-> level.TimeSeconds, ChunkSize |-> 10, IsBoss |-> level.IsBoss,
              MinAccuracy |-> level.MinAccuracy, MinChars |-> level.MinChars,
              BossRound |-> IF level.IsBoss
                            THEN [Words |-> IF words < 1 THEN 1 ELSE words,
                                  TimeLimit |-> level.TimeSeconds]
                            ELSE NoBossRound ]]

\* the words GenerateWordsDynamic picks from
Words == {<<"a">>, <<"a", "y">>}

\* GenerateWordsDynamic(count): count words joined by spaces, here one word
\* count times
GenerateWords(count, word) ==
    LET step == Len(word) + 1
    IN  [i \in 1..(count * step - 1) |->
            IF i % step = 0 THEN " " ELSE word[i % step]]

\* resetLevelState on the built-in levels
resetBuiltInLevel(g, s, word) ==
    LET level == ChallengeLevels[g.CurrentLevel + 1]
        text == IF level.BossRound # NoBossRound
                THEN GenerateWords(level.BossRound.Words, word)
                ELSE GenerateWords(level.ChunkSize, word)
    IN  [ game |-> [g EXCEPT !.Phase = "normal", !.ChunkIndex = 0,
                             !.TimeLeft = level.Time,
                             !.levelSecs = 0, !.WordsTyped = 0, !.Mistakes = 0,
                             !.TotalChars = 0],
          sess |-> Start(SetText(s, text)) ]

\* NewGameModel on the built-in levels: the GameState and the session it
\* leaves; levels[startingLevel] is a run-time panic beyond the last level
NewBuiltInGame(progress, word) ==
    LET startingLevel == GetStartingLevel(progress)
        g == [NoGame EXCEPT !.on = TRUE, !.progress = progress,
                            !.CurrentLevel = startingLevel]
        s == NewSession([ZeroConfig EXCEPT !.Mode = "challenge"], <<word>>)
    IN  IF startingLevel >= Len(ChallengeLevels)
        THEN [game |-> g, sess |-> s, panic |-> TRUE]
        ELSE LET new == resetBuiltInLevel(g, s, word)
             IN  [game |-> new.game, sess |-> new.sess, panic |-> FALSE]

\* StartChallengeGame on the built-in levels, no progress stored: LoadProgress
\* gives highest_level_completed = 0
InitBuiltIn ==
    /\ \E word \in Words :
         LET new == NewBuiltInGame(0, word)
         IN  sess = new.sess /\ game = new.game
    /\ InitLoop

\* the player leaves the challenge and runs it again: StartChallengeGame with
\* the progress UpdateProgress has stored
BuiltInNewGame ==
    /\ game.on
    /\ \E word \in Words :
         LET new == NewBuiltInGame(game.progress, word)
         IN  /\ game' = new.game
             /\ sess' = new.sess
             /\ m' = [m EXCEPT !.quitting = new.panic]
             /\ run' = [NewRun EXCEPT !.panicked = new.panic]
    /\ UNCHANGED <<elapsed, ticks, completeMsgs, records, keys, history, stats, exported, net>>

\* the phases the play of a level can end in: the countdown completes a boss
\* level (handleTick), checkLevelRequirements another one, and calculateAccuracy
\* is at most 100; a level is failed by typing too little
LevelEndings(level) ==
    {"failed"} \cup (IF level.IsBoss \/ RatLe(level.MinAccuracy, Rat(100, 1))
                     THEN {"complete"} ELSE {})

\* the play of a level, which SpecGame follows step by step, ends
BuiltInLevelEnds ==
    /\ game.on /\ ~m.quitting /\ game.Phase = "normal"
    /\ \E phase \in LevelEndings(ChallengeLevels[game.CurrentLevel + 1]) :
         game' = [game EXCEPT !.Phase = phase]
    /\ UNCHANGED <<sess, m, elapsed, ticks, completeMsgs, records, keys, run,
                   history, stats, exported, net>>

\* handleKey, Esc: retryLevel
BuiltInRetry ==
    /\ game.on /\ ~m.quitting
    /\ \E word \in Words :
         LET new == resetBuiltInLevel(game, sess, word)
         IN  game' = new.game /\ sess' = new.sess
    /\ UNCHANGED <<m, elapsed, ticks, completeMsgs, records, keys, run,
                   history, stats, exported, net>>

\* handleKey, Enter on a completed level: advanceLevel
BuiltInAdvance ==
    /\ game.on /\ ~m.quitting /\ game.Phase = "complete"
    /\ records' = SaveSessionRecords(records, <<challengeRecord(game, sess)>>)
    /\ LET g1 == [game EXCEPT
                    !.progress = UpdateProgress(@, game.CurrentLevel),
                    !.CurrentLevel = @ + 1]
       IN  IF g1.CurrentLevel >= Len(ChallengeLevels)
           THEN /\ game' = g1
                /\ m' = [m EXCEPT !.quitting = TRUE]
                /\ UNCHANGED sess
           ELSE \E word \in Words :
                    LET new == resetBuiltInLevel(g1, sess, word)
                    IN  /\ game' = new.game
                        /\ sess' = new.sess
                        /\ UNCHANGED m
    /\ UNCHANGED <<elapsed, ticks, completeMsgs, keys, run, history, stats, exported, net>>

NextBuiltIn ==
    \/ BuiltInLevelEnds
    \/ BuiltInRetry
    \/ BuiltInAdvance
    \/ BuiltInNewGame

SpecBuiltIn == InitBuiltIn /\ [][NextBuiltIn]_vars

----------------------------------------------------------------------------
(* The claims *)

\* the characters of the run that were typed: the chunks typed to their end
\* and what stands in the unfinished one
TypedChars == run.chunkChars + run.pending

\* C1: the record stored when a session completes, at a chunk boundary or by
\* the timer, has its rates computed from a character total that is the sum of
\* the lengths of the chunks typed, each counted once
C1_RecordCountsTypedChars ==
    (sess.completed /\ run.saves > 0) =>
        /\ RatEq(records.last.WPM, CalculateWPM(TypedChars, sess.duration))
        /\ records.last.DurationMs > 0 =>
               RatEq(records.last.CPM, Rat(TypedChars * 60000, records.last.DurationMs))

\* C2: the accuracy of the running session and of the stored record lies
\* between 0 and 100 in every reachable state
C2_AccuracyInRange ==
    LET InRange(a) == RatLe(Rat(0, 1), a) /\ RatLe(a, Rat(100, 1))
    IN  /\ InRange(SessionCalculateAccuracy(sess))
        /\ records.count > 0 => InRange(records.last.Accuracy)

\* C3: outside challenge mode a run has stored exactly one record once it is
\* completed and none before, whatever keys and ticks reach it afterwards
C3_OneRecordPerCompletedRun ==
    run.saves = (IF sess.completed THEN 1 ELSE 0)

\* C3, its case: a completed run that a key or a tick has reached since
C3_Witness == sess.completed /\ run.ignored /\ run.saves = 1 /\ ~run.panicked

CharStep == run'.chars = run.chars + 1
\* the character matched the text under the cursor
Matched == run'.mistakesMade = run.mistakesMade
\* the character ended the chunk
EndedChunk == run'.chunkChars # run.chunkChars

\* the counters a character key moves whatever its place in the chunk:
\* correctChars on a match, uncorrectedErrors and the mistakes of the run
\* (those of the chunk and those folded into totalMistakes) on a mismatch
CharCounters ==
    IF Matched
    THEN /\ sess'.correctChars = sess.correctChars + 1
         /\ sess'.uncorrectedErrors = sess.uncorrectedErrors
         /\ sess'.mistakes + sess'.totalMistakes = sess.mistakes + sess.totalMistakes
    ELSE /\ sess'.correctChars = sess.correctChars
         /\ sess'.uncorrectedErrors = sess.uncorrectedErrors + 1
         /\ sess'.mistakes + sess'.totalMistakes = sess.mistakes + sess.totalMistakes + 1

\* the character is appended to userInput, the cursor moves one place and the
\* mistakes of the chunk grow by one on a mismatch only
CharAppended ==
    /\ \E c \in Alphabet :
          /\ Matched <=> c = sess.text[sess.position + 1]
          /\ sess'.userInput = Append(sess.userInput, c)
    /\ sess'.position = sess.position + 1
    /\ sess'.mistakes = (IF Matched THEN sess.mistakes ELSE sess.mistakes + 1)

BackspaceStep == keys' = keys + 1 /\ run'.chars = run.chars

C7_TimedCompletesOnlyByTimer ==
    [][sess.mode \in {"timed", "words"} =>
        /\ (~sess.completed /\ sess'.completed) =>
               /\ ~run.expired /\ run'.expired
               /\ elapsed' >= sess.timeLimit
        /\ (CharStep /\ EndedChunk) =>
               /\ sess'.totalChars = sess.totalChars + Len(sess.userInput) + 1
               /\ sess'.totalMistakes =
                      sess.totalMistakes + sess.mistakes + (IF Matched THEN 0 ELSE 1)
               /\ sess'.text \in GenTexts
               /\ sess'.position = 0 /\ sess'.userInput = <<>>
               /\ sess'.running /\ ~sess'.completed
    ]_vars

\* C7, its case: a timed session whose chunk was typed to its end, later
\* completed by the timer
C7_Witness ==
    /\ sess.mode = "timed" /\ run.chunkChars > 0
    /\ sess.completed /\ run.expired

\* C8: on a running session with timeLimit > 0, UpdateTimer reading an elapsed
\* time >= timeLimit sets completed, clears running, sets duration to exactly
\* timeLimit, saves one record whose DurationMs is the limit in milliseconds
\* and issues the completion event, wherever the cursor stands; and a run the
\* timer has ended shows just that
C8_ExpiryClampsDuration ==
    /\ (sess.running /\ sess.timeLimit > 0) =>
          \A now \in {n \in Readings : n >= sess.timeLimit} :
              LET out == UpdateTimer(sess, now)
              IN  /\ out.sess.completed /\ ~out.sess.running
                  /\ out.sess.duration = sess.timeLimit
                  /\ out.complete
                  /\ Len(out.saved) = 1
                  /\ out.saved[1].DurationMs = sess.timeLimit * TickMs
    /\ run.expired =>
          /\ sess.completed /\ ~sess.running
          /\ sess.duration = sess.timeLimit
          /\ records.last.DurationMs = sess.timeLimit * TickMs

\* C8, its case: the timer ended a run in the middle of a chunk, the clock
\* read past the limit
C8_Witness ==
    /\ run.expired /\ elapsed > sess.timeLimit
    /\ 0 < sess.position /\ sess.position < Len(sess.text)

\* C9: after the timer has ended a run, totalChars counts the characters typed
\* in the unfinished chunk and totalMistakes the mistakes made in it, and so do
\* the results computed from the session
C9_ExpiryFoldsChunk ==
    run.expired =>
        /\ sess.totalChars = TypedChars
        /\ sess.totalMistakes = run.mistakesMade
        /\ CalculateResults(sess, sess.mode).Chars = TypedChars
        /\ CalculateResults(sess, sess.mode).Mistakes = run.mistakesMade

\* C10: under fair delivery of the timer ticks a started session with
\* timeLimit > 0 eventually completes, whatever keys, overlays and restarts
\* come in between, unless the program is quit or the user goes on
\* restarting for ever
C10_TimedSessionCompletes ==
    \/ []<><<DoRestart>>_vars
    \/ <>m.quitting
    \/ []((sess.running /\ sess.timeLimit > 0) => <>sess.completed)

\* C10, its case: a restarted run that the timer has ended, the help overlay up
C10_Witness ==
    /\ sess.completed /\ run.expired /\ m.mode = "help"
    /\ run.chars = 0 /\ sess.correctChars > 0

\* the chunks of a page: one more than the blank lines that part them
PageChunks(text) ==
    1 + Cardinality({i \in 1..(Len(text) - 1) : text[i] = "\n" /\ text[i + 1] = "\n"})

\* C11: in practice with a chunk limit N every page typed to its end adds its
\* chunk count to totalChunks, the page that follows holds
\* min(pageSize, N - totalChunks) chunks, the session completes at the page
\* end where totalChunks >= N and at no other; totalChunks <= N in every
\* state and totalChunks = N once completed
C11_PracticePaging ==
    /\ [](/\ sess.totalChunks <= sess.maxChunks
          /\ sess.completed => sess.totalChunks = sess.maxChunks
          /\ PageChunks(sess.text) = sess.currentPageChunks)
    /\ [][/\ (CharStep /\ EndedChunk) =>
              /\ sess'.totalChunks = sess.totalChunks + sess.currentPageChunks
              /\ sess'.completed <=> sess'.totalChunks >= sess.maxChunks
              /\ ~sess'.completed =>
                    sess'.currentPageChunks =
                        Min(sess.pageSize, sess.maxChunks - sess'.totalChunks)
          /\ (~sess.completed /\ sess'.completed) => (CharStep /\ EndedChunk)
       ]_vars

\* C11, its case: four chunks typed in a page of three and a page of one
C11_Witness ==
    /\ sess.completed /\ sess.maxChunks = 4 /\ sess.totalChunks = 4
    /\ sess.currentPageChunks = 1 /\ run.chunkChars = 8

\* a session over a list of chunks loaded beforehand
ChunkList == sess.mode \in {"custom", "quotes"} /\ Len(sess.allChunks) > 0

\* C12: in custom and quotes modes over a list allChunks of length n begun at
\* index k, 0 <= k < n, every chunk typed to its end adds 1 to chunkIndex, the
\* text of a session that is not completed is allChunks[chunkIndex], and the
\* session completes at the chunk end where chunkIndex reaches n and at no
\* other, n - k chunks having been typed
C12_ChunkListAdvance ==
    /\ []((ChunkList /\ ~sess.completed /\ ~run.panicked) =>
            /\ 0 <= sess.chunkIndex /\ sess.chunkIndex < Len(sess.allChunks)
            /\ sess.text = sess.allChunks[sess.chunkIndex + 1])
    /\ []((ChunkList /\ sess.completed) =>
            /\ sess.chunkIndex = Len(sess.allChunks)
            /\ run.chunks = Len(sess.allChunks) - run.first)
    /\ [][ChunkList =>
            /\ (CharStep /\ EndedChunk) =>
                  /\ sess'.chunkIndex = sess.chunkIndex + 1
                  /\ sess'.completed <=> sess'.chunkIndex = Len(sess.allChunks)
            /\ (~sess.completed /\ sess'.completed) => (CharStep /\ EndedChunk)
       ]_vars

\* C13: whatever start paragraph number a custom-file session is given (0,
\* negative and beyond the end of the file included), chunkIndex lies within
\* [0, len(allChunks) - 1] while the session is not completed, and no chunk
\* end indexes allChunks out of range
C13_ChunkIndexClamped ==
    /\ (sess.mode \in {"custom", "custom-timed"} /\ ~sess.completed) =>
          (0 <= sess.chunkIndex /\ sess.chunkIndex <= Len(sess.allChunks) - 1)
    /\ ~run.panicked

\* the level being played
CurrentLevel == Levels[game.CurrentLevel + 1]
\* a step in which the countdown of the level reaches zero
CountdownEnds == game'.TimeLeft = game.TimeLeft - 1 /\ game'.TimeLeft <= 0
\* a step in which the game handles the end of the text of a boss level
BossTextTyped ==
    /\ completeMsgs' = completeMsgs - 1
    /\ CurrentLevel.BossRound /\ game.Phase = "normal"

\* C14: when a level is evaluated, its boss text typed to the end or its
\* countdown at zero, the phase becomes complete if accuracy >= MinAccuracy,
\* mistakes <= MaxMistakes, totalChars >= MinChars and wordsTyped >= MinWords
\* all hold and failed otherwise, on boss levels and on the others
C14_LevelEvaluated ==
    [][(game.on /\ game.Phase = "normal" /\ (CountdownEnds \/ BossTextTyped)) =>
          game'.Phase = (IF checkLevelRequirements(game', CurrentLevel)
                         THEN "complete" ELSE "failed")
    ]_vars

\* C15: from phase failed no tick, key or session event leads to phase
\* complete or to the next level; the one way out is the retry (r or Esc),
\* which resets the state of the level and returns to phase normal
C15_FailedIsDeadEnd ==
    [][(game.on /\ game.Phase = "failed") =>
          /\ game'.CurrentLevel = game.CurrentLevel
          /\ game'.progress = game.progress
          /\ \/ game'.Phase = "failed"
             \/ /\ game'.Phase = "normal"
                /\ game'.ChunkIndex = 0 /\ game'.TimeLeft = CurrentLevel.Time
                /\ game'.WordsTyped = 0 /\ game'.Mistakes = 0 /\ game'.TotalChars = 0
                /\ sess'.position = 0 /\ sess'.userInput = <<>> /\ sess'.running
    ]_vars

\* a step in which the game handles the end of a chunk the session completed
ChunkHandled ==
    /\ game.on /\ game.Phase = "normal" /\ sess.completed
    /\ completeMsgs' = completeMsgs - 1

\* C16: the level is evaluated on the mistakes the player made: once a
\* completed chunk is handled the Mistakes of the level count the mismatched
\* keys typed in the level so far, and a boss text typed with less than
\* MinAccuracy of its keys correct ends in phase failed
C16_MistakesCounted ==
    [][ChunkHandled =>
          /\ game'.Mistakes = run.mistakesMade
          /\ (/\ CurrentLevel.BossRound
              /\ ~RatLe(CurrentLevel.MinAccuracy,
                        CalculateAccuracy(run.chars, run.mistakesMade)))
                 => game'.Phase = "failed"
    ]_vars

\* a step in which the game handles the end of the boss text of a level that
\* has a boss round
BossTextEnds ==
    /\ game.on /\ CurrentLevel.BossRound /\ sess.completed
    /\ completeMsgs' = completeMsgs - 1

\* C17: the boss text of a level is played in the BossRound sub-state (phase
\* boss), and its completion records a boss result and returns to phase
\* normal with the chunk index advanced
C17_BossRound ==
    [][BossTextEnds =>
          /\ game.Phase = "boss"
          /\ Len(game'.BossResults) = Len(game.BossResults) + 1
          /\ game'.Phase = "normal"
          /\ game'.ChunkIndex = game.ChunkIndex + 1
    ]_vars

\* a step in which Enter in phase complete moves the game to the next level
LevelAdvanced == game'.CurrentLevel = game.CurrentLevel + 1

\* C18: in challenge mode the end of a chunk stores no record; one record,
\* of mode challenge, is stored at each advance to the next level (Enter in
\* phase complete) and at no other step: none for a level in phase failed,
\* none at a retry, none for a chunk within the level
C18_RecordPerLevelAdvance ==
    [][game.on =>
          /\ LevelAdvanced =>
                /\ game.Phase = "complete"
                /\ records'.count = records.count + 1
                /\ records'.last.Mode = "challenge"
          /\ ~LevelAdvanced => records' = records
    ]_vars

\* C18, its case: a level was advanced from, with its one record, and in the
\* next level a text was typed to its end and handled by the game
C18_Witness ==
    /\ game.on /\ records.count = 1 /\ records.last.Mode = "challenge"
    /\ game.CurrentLevel = 2 /\ game.WordsTyped > 0 /\ run.chunks > 0

\* C19: the stored highest_level_completed never decreases: it is written
\* only by the advance to the next level, only with a value greater than the
\* stored one, and UpdateProgress leaves the maximum of the stored value and
\* the level passed to it
C19_ProgressMonotonic ==
    /\ [](\A stored \in 0..Len(Levels), level \in 0..Len(Levels) :
            UpdateProgress(stored, level) = (IF level > stored THEN level ELSE stored))
    /\ [][game.on =>
            /\ game'.progress >= game.progress
            /\ game'.progress # game.progress =>
                  /\ LevelAdvanced /\ game.Phase = "complete"
                  /\ game'.progress = game.CurrentLevel
            /\ LevelAdvanced =>
                  game'.progress = (IF game.CurrentLevel > game.progress
                                    THEN game.CurrentLevel ELSE game.progress)
       ]_vars

\* C19, its case: a game begun with nothing stored has advanced from its
\* first level, which wrote the store, and a text of the next level was typed
C19_Witness ==
    /\ game.on /\ records.count = 1 /\ game.progress = 1
    /\ game.CurrentLevel = 2 /\ keys = MaxKeys /\ game.WordsTyped > 0

\* the net rate of the session as saveRecord computes it
SessionNetWPM(s) ==
    CalculateNetWPM(s.totalChars + Len(s.userInput), s.uncorrectedErrors, s.duration)

\* C20: in every reachable state of the session and in every stored record
\* NetWPM <= WPM, and uncorrectedErrors >= 0, after whatever keys, chunk
\* ends and restarts
C20_NetWPMBelowWPM ==
    /\ sess.uncorrectedErrors >= 0
    /\ RatLe(SessionNetWPM(sess), SessionCalculateWPM(sess))
    /\ records.count > 0 =>
          /\ records.last.UncorrectedErrors >= 0
          /\ RatLe(records.last.NetWPM, records.last.WPM)

\* C20, its case: a record of a run with a wrong character taken back and a
\* wrong character left, its net rate below its rate
C20_Witness ==
    /\ records.count > 0
    /\ records.last.UncorrectedErrors = 1 /\ records.last.CorrectedErrors = 1
    /\ records.last.BackspaceCount = 1
    /\ ~RatLe(records.last.WPM, records.last.NetWPM)

\* a float64 that is a number: the fraction has a denominator
Defined(a) == a.d # 0
\* the value 0
Zero(a) == Defined(a) /\ a.n = 0

\* the durations and counts the metric functions are tried on
MetricDurations == -1..MaxElapsed
MetricCounts == 0..MaxKeys

\* C21: WPM, CPM, NetWPM and AdjustedWPM are 0 when the duration is 0,
\* accuracy is 100 when no character was typed, and in every state of the
\* session and in every stored record each metric is a defined value
C21_MetricsDefined ==
    /\ \A chars \in MetricCounts, errs \in MetricCounts, d \in MetricDurations :
          /\ Defined(CalculateWPM(chars, d))
          /\ Defined(CalculateNetWPM(chars, errs, d))
          /\ Defined(CalculateAdjustedWPM(chars, Rat(errs, 1), d))
          /\ Defined(CalculateAccuracy(chars, errs))
          /\ Zero(CalculateWPM(chars, 0))
          /\ Zero(CalculateNetWPM(chars, errs, 0))
          /\ Zero(CalculateAdjustedWPM(chars, Rat(errs, 1), 0))
          /\ RatEq(CalculateAccuracy(0, errs), Rat(100, 1))
    /\ LET results == CalculateResults(sess, sess.mode)
           metrics == << SessionCalculateWPM(sess), SessionCalculateCPM(sess),
                         SessionCalculateAccuracy(sess),
                         CalculateNetWPM(sess.totalChars + Len(sess.userInput),
                                         sess.uncorrectedErrors, sess.duration),
                         CalculateAdjustedWPM(sess.correctChars, sess.avgWordLength,
                                              sess.duration),
                         results.WPM, results.CPM, results.Accuracy >>
       IN  /\ \A i \in 1..Len(metrics) : Defined(metrics[i])
           /\ sess.duration = 0 =>
                 \A i \in {1, 2, 4, 5, 6, 7} : Zero(metrics[i])
           /\ sess.totalChars + Len(sess.userInput) = 0 =>
                 /\ RatEq(metrics[3], Rat(100, 1))
                 /\ RatEq(metrics[8], Rat(100, 1))
    /\ records.count > 0 =>
          /\ \A f \in {"WPM", "CPM", "Accuracy", "NetWPM", "AdjustedWPM"} :
                Defined(records.last[f])
          /\ records.last.DurationMs = 0 =>
                \A f \in {"WPM", "CPM", "NetWPM", "AdjustedWPM"} : Zero(records.last[f])

\* C21, its case: a run typed to its end within the first timer period, its
\* record of duration 0 holding the rates 0
C21_Witness ==
    /\ records.count > 0 /\ records.last.DurationMs = 0
    /\ records.last.TextLength > 0 /\ sess.completed /\ sess.correctChars > 0
    /\ Zero(records.last.WPM) /\ Zero(records.last.AdjustedWPM)

\* a chunk boundary: the key that ends the text and leaves the session running
\* on the next chunk or page
ChunkBoundary == CharStep /\ EndedChunk /\ ~sess'.completed

\* C22: at every chunk boundary mistakes, correctChars, backspaceCount,
\* correctedErrors and uncorrectedErrors are all 0
C22_CountersResetAtBoundary ==
    [][ChunkBoundary =>
         /\ sess'.mistakes = 0
         /\ sess'.correctChars = 0
         /\ sess'.backspaceCount = 0
         /\ sess'.correctedErrors = 0
         /\ sess'.uncorrectedErrors = 0]_vars

\* the outcome of a call that did nothing: the session as it was, no record,
\* no message, no tick
Nothing(s) == Outcome(s, FALSE, <<>>, FALSE, FALSE)

\* C23: while completed is true HandleInput, for every key, and UpdateTimer, for
\* every reading of the clock, change no field of the session and store no
\* record; the session of a completed run changes only by Restart or, in
\* challenge mode, by the SetText of the game, and only the game's advance to
\* the next level stores a record meanwhile
C23_CompletedIsImmutable ==
    /\ [](sess.completed =>
            /\ \A key \in Keys \cup GameKeys, now \in 0..MaxElapsed, gen \in Gens :
                  HandleInput(sess, key, now, gen) = Nothing(sess)
            /\ \A now \in 0..MaxElapsed : UpdateTimer(sess, now) = Nothing(sess))
    /\ [][sess.completed =>
            /\ \/ sess' = sess
               \/ sess' = Restart(sess)
               \/ game.on /\ ~sess'.completed /\ sess'.position = 0
                          /\ sess'.userInput = <<>>
            /\ records' # records =>
                  game.on /\ game'.CurrentLevel = game.CurrentLevel + 1]_vars

\* C23, its case: a key or a tick reached the session of a completed run, which
\* is as completeSession left it, one record stored
C23_Witness ==
    /\ sess.completed /\ ~sess.running /\ run.ignored
    /\ completeMsgs = 0 /\ m.mode = "results"
    /\ records.count = 1 /\ run.saves = 1
    /\ records.last.DurationMs = sess.duration * TickMs

\* C24: in every state of a session, after every HandleInput, Restart, SetText
\* and chunk boundary, len(userInput) = position
C24_InputLengthIsPosition == Len(sess.userInput) = sess.position

\* C24, its case: past a chunk boundary, characters standing in the next chunk,
\* one of them a mismatch
C24_Witness ==
    /\ run.chunks > 0 /\ sess.totalChars > 0 /\ ~sess.completed
    /\ sess.position > 0 /\ Len(sess.userInput) = sess.position
    /\ sess.mistakes > 0

\* the statistics of a history that holds a record have been computed
Computed == stats.TotalSessions > 0

\* a record is valid: at least 15 s and at least 60 characters
IsValid(r) == r.DurationMs >= 15000 /\ r.TextLength >= 60

\* the valid records of the history, in its order
ValidOf(h) == SelectSeq(h, IsValid)

\* the sum and the mean of w[i] over the indices i of I
RECURSIVE SumOver(_, _)
SumOver(I, w) ==
    IF I = {} THEN Rat(0, 1)
    ELSE LET i == CHOOSE j \in I : TRUE
         IN  RatAdd(w[i], SumOver(I \ {i}, w))
Mean(I, w) == RatDiv(SumOver(I, w), Rat(Cardinality(I), 1))

\* field f of the records of h, as numbers
Column(h, f) == [i \in 1..Len(h) |-> h[i][f]]
Counts(h, f) == [i \in 1..Len(h) |-> Rat(h[i][f], 1)]

\* p is the running maximum, from 0, of the numbers w
PeakOf(p, w) ==
    /\ \A i \in DOMAIN w : RatLe(w[i], p)
    /\ RatEq(p, Rat(0, 1)) \/ \E i \in DOMAIN w : RatEq(p, w[i])

\* C25: ValidSessions is the subsequence, in order, of the records of at least
\* 15000 ms and 60 characters; OutlierCount = TotalSessions - len(ValidSessions);
\* the raw averages and peaks are taken over all records, the normalized
\* average and peak WPM over the valid ones alone
C25_ValidityPartition ==
    Computed =>
        LET all == 1..Len(history)
            idx == {i \in all : IsValid(history[i])}
            nth(k) == CHOOSE i \in idx : Cardinality({j \in idx : j <= i}) = k
            valid == stats.ValidSessions
            wpm == Column(history, "WPM")
        IN  /\ stats.TotalSessions = Len(history)
            /\ Len(valid) = Cardinality(idx)
            /\ \A k \in 1..Len(valid) : valid[k] = history[nth(k)]
            /\ stats.OutlierCount = stats.TotalSessions - Len(valid)
            /\ RatEq(stats.RawAvgWPM, Mean(all, wpm))
            /\ PeakOf(stats.RawPeakWPM, wpm)
            /\ \E i \in all : RatEq(stats.RawPeakWPM, wpm[i])
            /\ RatEq(stats.RawAvgAccuracy, Mean(all, Column(history, "Accuracy")))
            /\ PeakOf(stats.RawBestAccuracy, Column(history, "Accuracy"))
            /\ RatEq(stats.AvgMistakes, Mean(all, Counts(history, "Mistakes")))
            /\ idx # {} =>
                 /\ RatEq(stats.NormalizedAvgWPM, Mean(idx, wpm))
                 /\ \A i \in idx : RatLe(wpm[i], stats.NormalizedPeakWPM)
                 /\ \E i \in idx : RatEq(stats.NormalizedPeakWPM, wpm[i])
            /\ idx = {} =>
                 /\ RatEq(stats.NormalizedAvgWPM, Rat(0, 1))
                 /\ RatEq(stats.NormalizedPeakWPM, Rat(0, 1))

\* C25, its case: a history of valid records and outliers between them, the
\* fastest record an outlier
C25_Witness ==
    /\ Computed /\ stats.TotalSessions = 4
    /\ stats.OutlierCount = 2 /\ Len(stats.ValidSessions) = 2
    /\ ~IsValid(history[1]) /\ IsValid(history[2]) /\ ~IsValid(history[3])
    /\ stats.ValidSessions[1] # stats.ValidSessions[2]
    /\ RatLt(stats.NormalizedPeakWPM, stats.RawPeakWPM)
    /\ ~RatEq(stats.NormalizedAvgWPM, stats.RawAvgWPM)

\* C26: the recency window is the first min(5, validCount) valid records;
\* RecentValidAvgWPM is their mean WPM; the consistency and variance percentage
\* is their population standard deviation over their mean times 100 when the
\* window holds 3 records or more and the mean is positive, and 0 otherwise
C26_RecencyWindow ==
    Computed =>
        LET valid == ValidOf(history)
            window == 1..Min(5, Len(valid))
            wpm == Column(valid, "WPM")
            squares == [i \in DOMAIN wpm |-> RatMul(wpm[i], wpm[i])]
            mean == Mean(window, wpm)
            \* the mean of the squares less the square of the mean
            variance == RatSub(Mean(window, squares), RatMul(mean, mean))
            percentSquared ==
                RatMul(RatDiv(variance, RatMul(mean, mean)), Rat(10000, 1))
        IN  /\ stats.RecentValidCountUsed = Cardinality(window)
            /\ window # {} => RatEq(stats.RecentValidAvgWPM, mean)
            /\ window = {} => RatEq(stats.RecentValidAvgWPM, Rat(0, 1))
            /\ stats.VariancePercent = stats.ConsistencyScore
            /\ IF Cardinality(window) >= 3 /\ RatLt(Rat(0, 1), mean)
               THEN stats.ConsistencyScore = Sqrt(percentSquared)
               ELSE stats.ConsistencyScore = Sqrt(Rat(0, 1))

\* C26, its case: more than five valid records, the ones past the window of
\* another rate, and a positive deviation within the window
C26_Witness ==
    /\ Computed /\ Len(stats.ValidSessions) > 5
    /\ stats.RecentValidCountUsed = 5
    /\ RatLt(Rat(0, 1), stats.ConsistencyScore.sq)
    /\ ~RatEq(stats.RecentValidAvgWPM, stats.NormalizedAvgWPM)

\* C27: with n valid records and half = floor(n / 2), ImprovementRate is
\* (newerAvg - olderAvg) / olderAvg * 100 for the means of the valid indices
\* 0..half-1 and n-half..n-1 when n >= 10 and olderAvg > 0, and 0 otherwise;
\* the middle record of an odd n has no part in it
C27_ImprovementRate ==
    Computed =>
        LET valid == ValidOf(history)
            n == Len(valid)
            half == n \div 2
            wpm == Column(valid, "WPM")
            newerAvg == Mean(1..half, wpm)
            olderAvg == Mean((n - half + 1)..n, wpm)
        IN  /\ IF n >= 10 /\ RatLt(Rat(0, 1), olderAvg)
               THEN RatEq(stats.ImprovementRate,
                          RatMul(RatDiv(RatSub(newerAvg, olderAvg), olderAvg),
                                 Rat(100, 1)))
               ELSE RatEq(stats.ImprovementRate, Rat(0, 1))
            /\ (n >= 10 /\ n % 2 = 1 /\ n = Len(history)) =>
                 \A r \in ValidRecords :
                    calculateStatistics([history EXCEPT ![half + 1] = r]).ImprovementRate
                        = stats.ImprovementRate

\* C27, its case: an odd number of valid records, 10 or more, among outliers,
\* the newer half faster than the older one
C27_Witness ==
    /\ Computed /\ Len(stats.ValidSessions) >= 10
    /\ Len(stats.ValidSessions) % 2 = 1
    /\ stats.OutlierCount > 0
    /\ RatLt(Rat(0, 1), stats.ImprovementRate)
    /\ stats.ValidSessions[(Len(stats.ValidSessions) \div 2) + 1].WPM
         # stats.ValidSessions[Len(stats.ValidSessions)].WPM

\* a, rounded to hundredths, is h hundredths
RoundsTo(a, h) == 200 * a.n >= (2 * h - 1) * a.d /\ 200 * a.n < (2 * h + 1) * a.d

\* the statistics of the twelve records of WPM 60, 58, 55, 50, 48, 45, 44, 42,
\* 40, 38, 36, 35: a recency average of 54.2 over 5 sessions, a newer average
\* of newer hundredths, an older average of older hundredths and an
\* improvement rate of rate tenths
ExampleStatistics(newer, older, rate) ==
    (Computed /\ history = ExampleHistory) =>
        LET wpm == Column(history, "WPM")
            newerAvg == Mean(1..6, wpm)
            olderAvg == Mean(7..12, wpm)
        IN  /\ Len(stats.ValidSessions) = 12
            /\ stats.RecentValidCountUsed = 5
            /\ RatEq(stats.RecentValidAvgWPM, Rat(542, 10))
            /\ RoundsTo(newerAvg, newer)
            /\ RoundsTo(olderAvg, older)
            /\ RatEq(stats.ImprovementRate,
                     RatMul(RatDiv(RatSub(newerAvg, olderAvg), olderAvg), Rat(100, 1)))
            /\ RoundsTo(RatDiv(stats.ImprovementRate, Rat(10, 1)), rate)

\* C28, as the code computes it: for these 12 valid records the recency average
\* of 5 sessions is 54.2 and the improvement rate is 34.5 to one decimal, from
\* the newest 6 (52.67) against the oldest 6 (39.17)
C28_Example == ExampleStatistics(5267, 3917, 345)

\* C28, as stated: for these 12 valid records the recency average of 5 sessions
\* is 54.2 and the improvement rate is 29.0 to one decimal, from the newest 6
\* (52.67) against the oldest 6 (40.83)
C28_ExampleAsStated == ExampleStatistics(5267, 4083, 290)

\* C28, its case: the statistics of the twelve records have been computed
C28_Witness ==
    /\ Computed /\ history = ExampleHistory
    /\ stats.TotalSessions = 12 /\ stats.OutlierCount = 0
    /\ RatEq(stats.RawPeakWPM, Rat(60, 1))

\* C29: for the history that holds exactly the record r a completed session
\* stored, RawAvgWPM = RawPeakWPM = r.WPM and RawAvgAccuracy = RawBestAccuracy
\* = r.Accuracy
C29_OneRecordRoundTrip ==
    records.count > 0 =>
        LET r == records.last
            st == calculateStatistics(<<r>>)
        IN  /\ RatEq(st.RawAvgWPM, r.WPM)
            /\ RatEq(st.RawPeakWPM, r.WPM)
            /\ RatEq(st.RawAvgAccuracy, r.Accuracy)
            /\ RatEq(st.RawBestAccuracy, r.Accuracy)

\* C30: GetBuiltInLevels yields 100 levels, the n-th numbered n, each number in
\* exactly one of the six tiers; level n is a boss level iff 5 divides n; a
\* boss level is played on a text of max(1, MinChars / 5) words with the
\* level's time limit, another level on chunks of the normal size
C30_BuiltInLevels ==
    LET levels == GetBuiltInLevels
        tiers == difficultyTiers
        level == levels[game.CurrentLevel + 1]
        words == level.MinChars \div 5
    IN  /\ Len(levels) = 100 /\ Len(tiers) = 6
        /\ \A n \in 1..100 :
              /\ levels[n].Num = n
              /\ Cardinality({k \in 1..6 : tiers[k].StartLevel <= n
                                            /\ n <= tiers[k].EndLevel}) = 1
              /\ levels[n].IsBoss <=> n % 5 = 0
        /\ (game.CurrentLevel < 100 /\ game.Phase = "normal") =>
              /\ game.TimeLeft = level.TimeSeconds
              /\ Fields(sess.text) = IF ~level.IsBoss THEN 10
                                     ELSE IF words < 1 THEN 1 ELSE words

\* C30, its case: level 90, a boss of 408 characters and 58 seconds, is being
\* played, every level from the second on completed before it
C30_Witness ==
    /\ game.on /\ game.CurrentLevel = 89 /\ game.Phase = "normal"
    /\ sess.running /\ Fields(sess.text) = 81 /\ game.TimeLeft = 58
    /\ records.count = 88

\* no key was processed before the last Start: the keys of the behaviour are
\* the character keys of the run and the backspaces, which nothing resets
NeverRestarted == keys = run.chars + sess.backspaceCount

\* C38: while the session runs, HandleInput has returned from every call and
\* the session has not been restarted, totalMistakes +
\* mistakes = correctedErrors + uncorrectedErrors, and correctChars +
\* totalMistakes + mistakes is the number of character keys processed
C38_ErrorsConserved ==
    (sess.running /\ ~sess.completed /\ ~run.panicked /\ NeverRestarted) =>
        /\ sess.totalMistakes + sess.mistakes
             = sess.correctedErrors + sess.uncorrectedErrors
        /\ sess.correctChars + sess.totalMistakes + sess.mistakes = run.chars

\* C38, its case: past a chunk boundary, a mismatch corrected by a backspace
\* before it and the session still running
C38_Witness ==
    /\ sess.running /\ ~sess.completed /\ NeverRestarted
    /\ run.chunks > 0 /\ sess.correctedErrors > 0 /\ sess.totalMistakes > 0
    /\ run.chars = 2

\* the session completed and the last record of the store is the one saved
\* for it
RecordOfSession == sess.completed /\ run.saves > 0 /\ ~run.panicked

\* the results screen: viewResults applies CalculateResults to the session
viewResults == CalculateResults(sess, sess.mode)

\* C33: for a completed session the WPM, accuracy and mistakes of the results
\* screen are the WPM, Accuracy and Mistakes of the record saved for it
C33_ResultsMatchRecord ==
    RecordOfSession =>
        /\ RatEq(viewResults.WPM, records.last.WPM)
        /\ RatEq(viewResults.Accuracy, records.last.Accuracy)
        /\ viewResults.Mistakes = records.last.Mistakes

\* C33, the WPM alone: it is the same on the screen and in the record
C33_WPMMatchesRecord ==
    RecordOfSession => RatEq(viewResults.WPM, records.last.WPM)

\* C33, the mistakes at a chunk boundary: completeSession stores totalMistakes
C33_MistakesMatchAtBoundary ==
    (RecordOfSession /\ ~run.expired) =>
        viewResults.Mistakes = records.last.Mistakes

\* a step of Restart: Esc while typing or Enter on the results screen
RestartStep ==
    /\ m.started /\ ~game.on /\ keys' = keys
    /\ sess' = Restart(sess) /\ run' = RunFrom(sess')

\* the fields Restart assigns are those of a session just started
RestartedFields(s) ==
    /\ s.position = 0 /\ s.userInput = <<>>
    /\ s.mistakes = 0 /\ s.totalMistakes = 0
    /\ s.totalChars = 0 /\ s.totalChunks = 0
    /\ s.running /\ ~s.completed

\* the counters saveRecord reads besides them
ErrorCounters(s) ==
    /\ s.correctChars = 0 /\ s.backspaceCount = 0
    /\ s.correctedErrors = 0 /\ s.uncorrectedErrors = 0

\* C34: after Restart the position is 0, the input empty, every scoring
\* counter 0, and with a chunk list the text is the chunk at chunkIndex
C34_RestartIsFresh ==
    [][RestartStep =>
          /\ RestartedFields(sess')
          /\ ErrorCounters(sess')
          /\ Len(sess'.allChunks) > 0 =>
                sess'.text = sess'.allChunks[sess'.chunkIndex + 1]
      ]_vars

\* C34, the fields Restart assigns
C34_RestartResetsItsFields == [][RestartStep => RestartedFields(sess')]_vars

\* C34, the counters alone
C34_RestartResetsErrorCounters == [][RestartStep => ErrorCounters(sess')]_vars

\* C35: every built-in level of the challenge has 85 <= MinAccuracy <= 100
C35_AccuracyPassable ==
    game.on =>
        \A n \in 1..Len(GetBuiltInLevels) :
            /\ RatLe(Rat(85, 1), GetBuiltInLevels[n].MinAccuracy)
            /\ RatLe(GetBuiltInLevels[n].MinAccuracy, Rat(100, 1))

\* C35, the lower bound alone
C35_AccuracyAtLeast85 ==
    \A n \in 1..Len(GetBuiltInLevels) :
        RatLe(Rat(85, 1), GetBuiltInLevels[n].MinAccuracy)

\* C35, the levels above 100: 92 to 95 of the Expert tier and 99
C35_LevelsAbove100 ==
    {n \in 1..Len(GetBuiltInLevels) :
        ~RatLe(GetBuiltInLevels[n].MinAccuracy, Rat(100, 1))} = {92, 93, 94, 95, 99}

\* C35, the level being played asks for at most 100
C35_CurrentLevelPassable ==
    (game.on /\ game.CurrentLevel < Len(GetBuiltInLevels)) =>
        RatLe(GetBuiltInLevels[game.CurrentLevel + 1].MinAccuracy, Rat(100, 1))

\* a step in which NewGameModel builds the game of a new run
NewGameStep == game'.on /\ run' \in {NewRun, [NewRun EXCEPT !.panicked = TRUE]}
                        /\ game'.CurrentLevel = GetStartingLevel(game.progress)
                        /\ game'.progress = game.progress /\ m.started
                        /\ (~m'.started \/ run'.panicked)

C36_InRangeBeforeLastLevel ==
    [][(NewGameStep /\ game.progress < Len(Levels) - 1) =>
            /\ 0 <= game'.CurrentLevel
            /\ game'.CurrentLevel <= Len(Levels) - 1
            /\ ~run'.panicked]_vars

\* C36, on the built-in levels, where the levels 92 to 94 cannot be completed
\* (C35): the starting level is within the list
C36_BuiltInStartInRange ==
    game.on => (~run.panicked /\ game.CurrentLevel <= Len(ChallengeLevels) - 1)

\* C37: with no saved progress a game starts at level 1 (index 0), and after
\* the player has advanced past level n the next game starts at level n + 1,
\* the level reached
C37_StartsAtLowestNotCompleted ==
    /\ []((game.on /\ records.count = 0) => game.CurrentLevel = 0)
    /\ [][(BuiltInNewGame /\ records.count > 0) =>
            game'.CurrentLevel = game.CurrentLevel]_vars

\* C37, after progress: a game that follows an advance starts at the level the
\* player had reached
C37_ResumesAtLevelReached ==
    [][(BuiltInNewGame /\ records.count > 0) =>
            game'.CurrentLevel = game.CurrentLevel]_vars

\* C37, without progress: the game starts at index 1, the second level
C37_FirstGameAtSecondLevel ==
    (game.on /\ records.count = 0) => game.CurrentLevel = 1

\* a level is being played
LevelInPlay == game.on /\ m.started /\ ~m.quitting /\ game.Phase = "normal"

\* the level ended, or the program did
LevelOver == game.Phase \in {"complete", "failed"} \/ m.quitting

\* C32: the countdown keeps running across levels and retries, so every
\* started level eventually reaches phase complete or failed
C32_EveryLevelEnds == LevelInPlay ~> LevelOver

\* C32, the ticks: while a level is played a TickMsg is on its way
C32_TickScheduledInPlay == LevelInPlay => game.ticks > 0

\* C32, the first level of a game, and any level whose countdown has not
\* ended since GameModel.Init: it reaches phase complete or failed
C32_LevelWithTicksEnds == (LevelInPlay /\ game.ticks > 0) ~> LevelOver

\* the fields the Statistics of both packages define, the streaks left out
SharedFields ==
    { "TotalSessions", "TotalTime", "RawAvgWPM", "RawPeakWPM", "RawAvgAccuracy",
      "RawBestAccuracy", "AvgMistakes", "BackspaceRate", "ValidSessions",
      "NormalizedAvgWPM", "NormalizedPeakWPM", "RecentValidAvgWPM",
      "RecentValidCountUsed", "ConsistencyScore", "VariancePercent",
      "ImprovementRate", "OutlierCount" }

\* both computations were made on the history
BothComputed == stats.TotalSessions > 0 /\ exported.TotalSessions > 0

\* C39: every field both statistics implementations define has the same value
\* in the interactive view and in the JSON export
C39_ImplementationsAgree ==
    BothComputed => \A f \in SharedFields : stats[f] = exported[f]

\* C39, the fields besides BackspaceRate
C39_AgreeBesidesBackspaceRate ==
    BothComputed =>
        \A f \in SharedFields \ {"BackspaceRate"} : stats[f] = exported[f]

\* C39, the backspace rate of the export
C39_ExportHasNoBackspaceRate == exported.BackspaceRate = Rat(0, 1)

\* the failures of a fetch: transport error or timeout, a status other than
\* 200, an unreadable body, malformed JSON, an empty list, an empty quote text
Failed(reply) ==
    \/ reply.err
    \/ reply.status # 200
    \/ reply.readErr
    \/ ~reply.parsed
    \/ reply.list = <<>>
    \/ reply.list[1].Q = <<>>

\* the quote a reply gives: the default text by "Unknown" on a failure, and the
\* first quote of the list otherwise
QuoteFor(reply) ==
    IF Failed(reply) THEN [Text |-> DefaultPracticeText, Author |-> "Unknown"]
    ELSE [Text |-> reply.list[1].Q, Author |-> reply.list[1].A]

\* C31: FetchQuoteWithAuthor issues exactly one request and returns the default
\* text by "Unknown" on every failure, never an empty text; FetchMultipleQuotes
\* returns exactly the clamped count (1 to 10) of quotes, one request each, with
\* the same fallback for each quote
C31_QuoteFetch ==
    /\ net.op = "one" =>
          /\ net.returned /\ net.requests = 1
          /\ net.quotes = <<QuoteFor(net.reply)>>
    /\ net.op = "many" =>
          /\ net.count \in 1..10
          /\ net.count = (IF net.asked < 1 THEN 1
                          ELSE IF net.asked > 10 THEN 10 ELSE net.asked)
          /\ net.requests = Len(net.quotes) /\ net.requests <= net.count
          /\ net.requests > 0 => net.quotes[net.requests] = QuoteFor(net.reply)
          /\ net.returned => Len(net.quotes) = net.count
    /\ \A i \in 1..Len(net.quotes) : net.quotes[i].Text # <<>>

\* C31, its case: twelve quotes were asked for and ten returned, the last of
\* them the fallback for a quote with an empty text, another one fetched
C31_Witness ==
    /\ net.op = "many" /\ net.returned /\ net.asked = 12
    /\ Len(net.quotes) = 10 /\ net.requests = 10
    /\ net.reply.status = 200 /\ net.reply.parsed /\ net.reply.list # <<>>
    /\ net.quotes[10].Author = "Unknown"
    /\ net.quotes[1].Author = "A"

====
